---- MODULE Spec2Model ----
(***************************************************************************)
(* Model of the context-scoped transaction machinery of kit's Database     *)
(* (src/cache.go): Transaction, Query and Exec, in the two variants the    *)
(* repository holds: the older one without an isolation level parameter    *)
(* (lines 1142-1251) and the newer one with it (lines 1519-1645).          *)
(*                                                                         *)
(* A call chain is one logical sequence of nested Transaction calls that   *)
(* starts from a context carrying no transaction handle.  The bodies (fn)  *)
(* are caller code: they issue Query/Exec, call Transaction again with the *)
(* context they were given, return nil or an error, or panic.  The pgx     *)
(* driver (BeginTx, Commit, Rollback) is an external collaborator whose    *)
(* calls succeed or fail nondeterministically.                             *)
(*                                                                         *)
(* The second part models the lifecycle calls of the resource clients      *)
(* (NewDatabase, NewCache, NewMigrator, Health, Close of src/cache.go and   *)
(* src/unnamed/part_000): a function run under util.Deadline, for Connect  *)
(* wrapping util.ExponentialRetry around the dial attempt, and the switch  *)
(* that turns what util.Deadline returned into the caller's result.        *)
(***************************************************************************)
EXTENDS Integers, Sequences, FiniteSets, TLC

\* ---------------------------------------------------------------- bounds
MaxDepth == 3
MaxCalls == 3
MaxQueries == 2
SibDepth == 2
SibCalls == 1
MaxAttempts == 3

\* The longest message of a raw error, in tokens.
MaxMsgLen == 3

\* Query and Exec calls per chain when their outcomes are told apart.
StmtQueries == 1

\* The migrations that exist: versions 1..MaxVersion.
MaxVersion == 5

\* ------------------------------------------------------------- constants
NIL == "nil"

\* A context that carries no transaction handle: ctx.Value(...) == nil.
NoTx == 0

Chains == {1, 2}
Variants == {"old", "new"}

\* The four exported isolation levels, by the name the caller uses.
LevelNames ==
    {"IsoLvlReadUncommitted", "IsoLvlReadCommitted", "IsoLvlRepeatableRead", "IsoLvlSerializable"}

\* var ( IsoLvlReadUncommitted IsolationLevel = 0; the other three carry no
\* initializer: a Go package variable without one holds its zero value.
IsoLvlReadUncommitted == 0
IsoLvlReadCommitted == 0
IsoLvlRepeatableRead == 0
IsoLvlSerializable == 0

\* The Go value of the level a caller names.
IsoValue(name) ==
    CASE name = "IsoLvlReadUncommitted" -> IsoLvlReadUncommitted
      [] name = "IsoLvlReadCommitted" -> IsoLvlReadCommitted
      [] name = "IsoLvlRepeatableRead" -> IsoLvlRepeatableRead
      [] name = "IsoLvlSerializable" -> IsoLvlSerializable

\* The driver's isolation levels (pgx.TxIsoLevel strings).
PgxReadUncommitted == "read uncommitted"
PgxReadCommitted == "read committed"
PgxRepeatableRead == "repeatable read"
PgxSerializable == "serializable"

\* A Go map composite literal with non-constant keys: the elements are
\* stored in source order, a later element with an equal key replacing the
\* earlier one.
MapOfLiteral(lit) ==
    [k \in {lit[i][1] : i \in DOMAIN lit} |->
        lit[CHOOSE i \in DOMAIN lit :
                /\ lit[i][1] = k
                /\ \A j \in DOMAIN lit : lit[j][1] = k => j <= i][2]]

\* A Go map read: the zero value when the key is absent.
MapGet(m, k) == IF k \in DOMAIN m THEN m[k] ELSE ""

KisoLevelToPisoLevel ==
    MapOfLiteral(<< <<IsoLvlReadUncommitted, PgxReadUncommitted>>,
                    <<IsoLvlReadCommitted, PgxReadCommitted>>,
                    <<IsoLvlRepeatableRead, PgxRepeatableRead>>,
                    <<IsoLvlSerializable, PgxSerializable>> >>)

\* _DATABASE_DEFAULT_CONFIG.DatabaseDefaultIsolationLevel
DefaultConfigIsolationLevel == "IsoLvlReadCommitted"

\* util.Merge(&config, _DATABASE_DEFAULT_CONFIG): an unset field takes the default.
MergeIsolationLevel(cfg) == IF cfg = NIL THEN DefaultConfigIsolationLevel ELSE cfg

VARIABLES
    variant,      \* which Database.Transaction of the repository is in use
    cfgIso,       \* config.DatabaseDefaultIsolationLevel as the caller gave it (NIL: unset)
    chains,       \* the call chains the callers run (sibling contexts of one parent)
    limits,       \* the depth, call and query budgets of this run
    cancelled,    \* cancelled[c]: the chain's ambient context is cancelled
    stack,        \* stack[c]: the Transaction calls in progress, outermost first
    txs,          \* the physical transactions begun so far, by handle
    calls,        \* calls[c]: the driver calls the chain has made, in order
    queries,      \* queries[c]: the Query/Exec calls issued: context handle and target
    ncalls,       \* ncalls[c]: Transaction calls made so far
    raised,       \* raised[c]: the value a body of the chain panicked with
    panicking,    \* panicking[c]: the panic value unwinding the chain
    fnOut,        \* fnOut[c]: how the outermost body ended
    nestedFailed, \* nestedFailed[c]: some nested Transaction call returned an error
    res,          \* res[c]: the outcome of the outermost Transaction call
    call,         \* the lifecycle call in progress: resource, operation, retry config, context
    caller,       \* the caller of that call: waiting or returned, and what it got
    worker,       \* the function handed to util.Deadline: where it is, what it returned
    deadline,     \* the context's deadline: expired, and the exceeded channel signalled
    pool,         \* the local variable `pool` (`migrator`) the dial attempt assigns
    dials,        \* the dial attempts made so far, in order
    rawErr,       \* the raw error handed to the classifier
    classifier,   \* which classifier it is handed to
    errFormat,    \* how Error() of a kit error renders its text
    once,         \* the classifier applied to rawErr
    twice,        \* the classifier applied to that
    pass,         \* how many times the classifier has been applied
    migVariant,   \* which Migrator of the repository is in use
    schema,       \* the persisted schema version and its dirty flag
    mcall,        \* the Version/Assert/Apply/Rollback call: its caller's side
    works,        \* the functions handed to util.Deadline: that call's, an abandoned one
    applied,      \* the migrations run during that call, in order
    mlog,         \* what that call has logged
    done,         \* the channel self.done holds: who made it, how often it was closed
    closing,      \* the Migrator.Close call
    concurrent    \* whether callers start an operation while a function runs or Close does

vars ==
    <<variant, cfgIso, chains, limits, cancelled, stack, txs, calls, queries, ncalls,
      raised, panicking, fnOut, nestedFailed, res, call, caller, worker, deadline, pool, dials,
      rawErr, classifier, errFormat, once, twice, pass,
      migVariant, schema, mcall, works, applied, mlog, done, closing, concurrent>>

\* The state of the transaction machinery, and that of the lifecycle calls.
txVars ==
    <<variant, cfgIso, chains, limits, cancelled, stack, txs, calls, queries, ncalls,
      raised, panicking, fnOut, nestedFailed, res>>

opVars == <<call, caller, worker, deadline, pool, dials>>

\* The state of the error classifiers.
clVars == <<rawErr, classifier, errFormat, once, twice, pass>>

\* The state of the migrator.
mgVars == <<migVariant, schema, mcall, works, applied, mlog, done, closing, concurrent>>

\* What a step of the transaction machinery, of a lifecycle call, of a
\* classifier and of the migrator leaves alone.
outsideTx == <<opVars, clVars, mgVars>>

outsideOps == <<txVars, clVars, mgVars>>

outsideCl == <<txVars, opVars, mgVars>>

outsideMg == <<txVars, opVars, clVars>>

\* Panic values a body may raise: one that is a Go error, one that is not.
PanicValues ==
    {[isError |-> TRUE, v |-> "errPanic", secondary |-> NIL],
     [isError |-> FALSE, v |-> "strPanic", secondary |-> NIL]}

\* A Go error value: what it is, and the secondary error attached to it.
Err(name) == [isError |-> TRUE, v |-> name, secondary |-> NIL]

NoPanic == [isError |-> FALSE, v |-> NIL, secondary |-> NIL]

Idle == [kind |-> "idle"]
Running == [kind |-> "running"]
ReturnedNil == [kind |-> "nil"]

\* ------------------------------------------------------- pure operators

\* Mutant of CtxValue: the handle kept in one place shared by every caller
\* (a field of Database) instead of in the caller's context.
CtxValue_Shared(ctx, open) ==
    IF ctx # NoTx THEN ctx
    ELSE IF open # {} THEN CHOOSE h \in open : \A g \in open : h <= g
    ELSE NoTx

\* ctx.Value(KeyDatabaseTransaction): the handle the context carries.  The
\* handle lives in the context alone; the transactions open elsewhere are
\* not consulted.
CtxValue(ctx, open) == ctx

\* Mutant of IsNested: the handle in the context is never recognised.
IsNested_Never(h) == FALSE

\* if ctx.Value(KeyDatabaseTransaction) != nil
IsNested(h) == h # NoTx

\* context.WithValue(ctx, KeyDatabaseTransaction, transaction)
WithValue(ctx, h) == h

\* if level == nil { level = self.config.DatabaseDefaultIsolationLevel }
EffectiveLevel(lvl, cfg) == IF lvl = NIL THEN MergeIsolationLevel(cfg) ELSE lvl

\* pgx.TxOptions{IsoLevel: ...}: the newer variant looks the level up, the
\* older one always asks for pgx.Serializable.
BeginIsoLevel(v, lvl, cfg) ==
    IF v = "new"
    THEN MapGet(KisoLevelToPisoLevel, IsoValue(EffectiveLevel(lvl, cfg)))
    ELSE PgxSerializable

\* Mutant of QueryTarget: the context is not consulted.
QueryTarget_AlwaysPool(h) == [on |-> "pool", h |-> NoTx]

\* Query / Exec: the transaction handle when the context carries one, the pool otherwise.
QueryTarget(h) ==
    IF h # NoTx THEN [on |-> "tx", h |-> h] ELSE [on |-> "pool", h |-> NoTx]

\* Mutant of NestedDriverOps: the nested branch rolls back when its fn fails.
NestedDriverOps_Rollback(e) == IF e # NIL THEN <<"rollback">> ELSE << >>

\* The driver calls the nested branch makes once fn has returned e: none.
NestedDriverOps(e) == << >>

\* Mutant of FnFailed: fn's error is not looked at.
FnFailed_Never(e) == FALSE

\* if err != nil after fn: the outermost call rolls back instead of committing.
FnFailed(e) == e # NIL

\* Utils.CombineErrors(err, errR): the rollback error attached to the primary one.
CombineErrors(e, r) == IF r = NIL THEN e ELSE [e EXCEPT !.secondary = r]

\* The value the deferred function panics with.
RepanicValue(v, pv, errR) ==
    IF v = "new" THEN pv
    ELSE IF ~pv.isError THEN Err("TypeAssertionError")
    ELSE CombineErrors(pv, errR)

\* Errors.ErrDatabaseTransactionFailed().Wrap(...): the rollback error is
\* combined in by the older variant and dropped by the newer one.
TransactionFailed(v, cause, errR) ==
    [kind |-> "err", code |-> "ErrDatabaseTransactionFailed",
     cause |-> IF v = "old" THEN CombineErrors(cause, errR) ELSE cause]

\* ------------------------------------------------------------- the driver

\* tx.Rollback: closes an open transaction; on a closed one it is a no-op
\* that returns ErrTxClosed.
RollbackState(st, ok) ==
    IF st = "open" THEN (IF ok THEN "rolledback" ELSE "rollbackFailed") ELSE st

RollbackErr(st, ok) ==
    IF st # "open" THEN "ErrTxClosed" ELSE IF ok THEN NIL ELSE "rollbackErr"

\* Mutant of CommitState: a successful commit leaves the transaction as it was.
CommitState_Noop(st, ok) ==
    IF st = "open" THEN (IF ok THEN st ELSE "commitFailed") ELSE st

\* tx.Commit: the transaction is closed whether or not the commit succeeds.
CommitState(st, ok) ==
    IF st = "open" THEN (IF ok THEN "committed" ELSE "commitFailed") ELSE st

OpenHandles == {h \in DOMAIN txs : txs[h].state = "open"}

\* One driver call on handle h by frame f of chain c, as a log entry.
LogEntry(op, h, f, d, r) ==
    [op |-> op, h |-> h, depth |-> d, ctxHad |-> f.ctx # NoTx, result |-> r]

Top(c) == stack[c][Len(stack[c])]
Depth(c) == Len(stack[c])
Pop(s) == SubSeq(s, 1, Len(s) - 1)
SetTopPc(s, pc) == [s EXCEPT ![Len(s)].pc = pc]

\* err := fn(ctx): the top call invokes its body.
InvokeFn(s) == [s EXCEPT ![Len(s)].pc = "body", ![Len(s)].runs = @ + 1]

\* The context the body of frame f runs with.
BodyCtx(f) == IF f.own # NoTx THEN WithValue(f.ctx, f.own) ELSE f.ctx

\* The frames a panic leaves: it unwinds to the innermost call that has
\* registered the deferred recover (the calls that began a handle), whose
\* deferred function runs next; a call without one is simply left.
Unwind(s) ==
    LET idx == {i \in 1..Len(s) : s[i].own # NoTx}
    IN  IF idx = {} THEN << >>
        ELSE LET m == CHOOSE i \in idx : \A j \in idx : j <= i
             IN  [SubSeq(s, 1, m) EXCEPT ![m].pc = "recover"]

\* ------------------------------------------- lifecycle calls: operators

Resources == {"database", "cache", "migrator", "worker"}

\* The lifecycle operations each resource has under util.Deadline.
OpsOf(r) ==
    CASE r = "database" -> {"connect", "health", "close"}
      [] r = "cache" -> {"connect", "health", "close"}
      [] r = "migrator" -> {"connect", "close"}
      [] r = "worker" -> {"close"}

\* An error is the chain of its layers, outermost first; nil is the empty chain.
NoErr == << >>

\* One layer: an error kind of a resource, or a raw driver error.
Layer(k, r) == [k |-> k, r |-> r]

Raw(name) == Layer(name, "driver")

\* util.ErrDeadlineExceeded, as util.Deadline returns it.
ErrDeadlineExceeded == <<Layer("DeadlineExceeded", "util")>>

\* util.ErrDeadlineExceeded.Is(err)
IsDeadlineExceeded(e) == e # NoErr /\ e[1] = Layer("DeadlineExceeded", "util")

\* The kind of an error: that of its outermost layer.
Kind(e) == IF e = NoErr THEN NIL ELSE e[1].k

\* ErrXxx().Wrap(err), ErrXxx().WrapAs(err), ErrXxx.Raise().Cause(err): an
\* error of kind k of resource r with err as its cause.
Wrap(k, r, e) == <<Layer(k, r)>> \o e

\* The handle nobody assigned: var pool *pgxpool.Pool.
NoPool == 0

NoClient == [set |-> FALSE, pool |-> NoPool]

\* &Database{pool: pool}, &Cache{pool: pool}, &Migrator{migrator: migrator}
Client(p) == [set |-> TRUE, pool |-> p]

\* Whether the dial attempt of the resource pings what it dialled.
Pings(r) == r \in {"database", "cache"}

\* Whether the dial itself can fail: redis.NewClient returns no error.
DialCanFail(r) == r # "cache"

\* The retriables a caller can configure, by what they do to the dial
\* failure: none listed, a list the failure matches, a list it does not.
RetriableLists == {"empty", "match", "other"}

\* Mutant of Matches: every failure is taken for retriable.
Matches_Always(list) == TRUE

\* util.ExponentialRetry: a failure is retriable when no retriables are
\* listed or the error matches one of them.
Matches(list) == list \in {"empty", "match"}

\* Mutant of AttemptNumber: the numbering starts at 0.
AttemptNumber_FromZero(k) == k - 1

\* util.ExponentialRetry: the number the k-th invocation of the function is given.
AttemptNumber(k) == k

\* The delays a caller can configure, in milliseconds (0: none).
InitialDelays == {0, 10}

LimitDelays == {0, 15, 100}

RECURSIVE Pow2(_)
Pow2(k) == IF k <= 0 THEN 1 ELSE 2 * Pow2(k - 1)

\* Mutant of Delay: the same delay before every attempt.
Delay_Constant(k, init, lim) == IF lim > 0 /\ init > lim THEN lim ELSE init

\* util.ExponentialRetry: the delay after the k-th failed attempt, doubling
\* from the initial delay and capped at a non-zero limit.
Delay(k, init, lim) ==
    LET d == init * Pow2(k - 1)
    IN  IF lim > 0 /\ d > lim THEN lim ELSE d

\* Mutant of ShouldRetry: one attempt more than configured.
ShouldRetry_OneMore(n, attempts, matches) == matches /\ n <= attempts

\* util.ExponentialRetry after the failure of attempt n: another attempt
\* follows while fewer than `attempts` were made and the failure is
\* retriable (the list of retriables is empty or the error matches it).
ShouldRetry(n, attempts, matches) == matches /\ n < attempts

\* Mutant of DeadlineFnDone: a failure of the function is reported as the deadline's.
DeadlineFnDone_AsTimeout(e) == IF e = NoErr THEN NoErr ELSE ErrDeadlineExceeded

\* util.Deadline when the function finishes first: its error, unchanged.
DeadlineFnDone(e) == e

\* Mutant of DeadlineOnExpiry: the executor keeps waiting for the function.
DeadlineOnExpiry_KeepsWaiting(st) == st

\* util.Deadline when the deadline expires first: the caller's wait is over.
DeadlineOnExpiry(st) == "returned"

\* Mutant of SignalOnExpiry: the exceeded channel is left alone.
SignalOnExpiry_Never(sig) == sig

\* util.Deadline when the deadline expires first: the exceeded channel is signalled.
SignalOnExpiry(sig) == TRUE

\* Mutant of Surface: whatever util.Deadline returned is surfaced as Generic.
Surface_AllGeneric(r, e) == IF e = NoErr THEN NoErr ELSE Wrap("Generic", r, e)

\* The switch after util.Deadline: nil stays nil, a deadline error becomes
\* the resource's TimedOut, anything else is wrapped as Generic (database,
\* cache) or returned as it is (worker, migrator).
Surface(r, e) ==
    IF e = NoErr THEN NoErr
    ELSE IF IsDeadlineExceeded(e)
    THEN (IF r \in {"database", "cache"} THEN <<Layer("TimedOut", r)>>
          ELSE Wrap("TimedOut", r, e))
    ELSE IF r \in {"database", "cache"} THEN Wrap("Generic", r, e)
    ELSE e

\* Mutant of Connected: the client is built whatever the error.
Connected_Always(r, e, p) == [client |-> Client(p), err |-> Surface(r, e)]

\* What a constructor returns once util.Deadline has returned e and the
\* local variable holds p: (nil, error) or (client, nil).
Connected(r, e, p) ==
    IF e = NoErr THEN [client |-> Client(p), err |-> NoErr]
    ELSE [client |-> NoClient, err |-> Surface(r, e)]

\* The function Health runs under util.Deadline: the pool's connection
\* count against the minimum, the ping, then ctx.Err().
HealthFn(r, belowMin, probeFails, ctxCancelled) ==
    IF belowMin THEN <<Layer("Unhealthy", r)>>
    ELSE IF probeFails THEN Wrap("Unhealthy", r, <<Raw("pingErr")>>)
    ELSE IF ctxCancelled THEN Wrap("Unhealthy", r, <<Raw("ctxErr")>>)
    ELSE NoErr

\* The function Close runs under util.Deadline: only the cache's and the
\* migrator's can fail.
CloseFn(r, ok) ==
    IF ok \/ r \in {"database", "worker"} THEN NoErr
    ELSE Wrap("Generic", r, <<Raw("closeErr")>>)

NoCall ==
    [r |-> "none", o |-> "none", attempts |-> 0, retriables |-> "empty", matches |-> TRUE,
     initialDelay |-> 0, limitDelay |-> 0, hasDeadline |-> FALSE,
     belowMin |-> FALSE, probeFails |-> FALSE, preCancelled |-> FALSE]

\* No lifecycle call is in progress.
OpsIdle ==
    /\ call = NoCall
    /\ caller = [state |-> "idle", derr |-> NoErr, client |-> NoClient, err |-> NoErr]
    /\ worker = [state |-> "none", attempt |-> 0, err |-> NoErr]
    /\ deadline = [expired |-> FALSE, signalled |-> FALSE]
    /\ pool = NoPool
    /\ dials = << >>

\* ---------------------------------------------------------------- error classifiers

\* pgerrcode: the integrity-constraint class, and a code outside of it.
IntegrityConstraintViolation == "23000"

RestrictViolation == "23001"

NotNullViolation == "23502"

ForeignKeyViolation == "23503"

UniqueViolation == "23505"

CheckViolation == "23514"

ExclusionViolation == "23P01"

RaiseException == "P0001"

IntegrityCodes ==
    {IntegrityConstraintViolation, RestrictViolation, NotNullViolation, ForeignKeyViolation,
     UniqueViolation, CheckViolation, ExclusionViolation}

\* The text of an error is a sequence of tokens: the opening of a code group
\* "(SQLSTATE ", a code, the parenthesis that closes a group, other text.
SqlStateOpen == "(SQLSTATE "

ParenClose == ")"

\* pgx.ErrNoRows.Error()
NoRowsText == <<"no rows in result set">>

\* cache.ErrCacheMiss.Error()
CacheMissText == <<"cache: key is missing">>

\* What the message of a server error, or the text of any other error, is
\* made of.
MsgTokens == {SqlStateOpen, ParenClose, UniqueViolation, RaiseException, "text"}

RECURSIVE SeqsUpTo(_, _)
SeqsUpTo(S, n) ==
    IF n = 0 THEN {<< >>}
    ELSE LET shorter == SeqsUpTo(S, n - 1)
         IN shorter \cup {Append(q, t) : q \in {x \in shorter : Len(x) = n - 1}, t \in S}

Msgs == SeqsUpTo(MsgTokens, MaxMsgLen)

\* One error value of a chain: what it is (its dynamic type or identity),
\* its kind when it is a kit error, its code when it is a server error, and
\* its own message.
ErrValue(id, kind, code, msg) == [id |-> id, kind |-> kind, code |-> code, msg |-> msg]

\* The raw errors a classifier can be handed: the two sentinels, a server
\* error (*pgconn.PgError) with its code and message, any other error.
RawErrors ==
    {<<ErrValue("pgx.ErrNoRows", "raw", "", NoRowsText)>>,
     <<ErrValue("cache.ErrCacheMiss", "raw", "", CacheMissText)>>}
    \cup {<<ErrValue("pgconn.PgError", "raw", c, m)>> :
             c \in IntegrityCodes \cup {RaiseException}, m \in Msgs}
    \cup {<<ErrValue("other", "raw", "", m)>> : m \in Msgs \cup {NoRowsText}}

\* How Error() of a kit error renders: its own message alone, or its
\* message followed by the text of its cause.
ErrFormats == {"message", "messageAndCause"}

\* ErrXxx().WrapWithDepth(1, err): a kit error of that kind with err as its
\* cause; its message is one no driver produces.
WrapWithDepth(kind, err) == <<ErrValue("kit.Error", kind, "", <<kind>>)>> \o err

\* (*pgconn.PgError).Error(): severity and message, then the code group.
PgErrorText(v) == v.msg \o <<SqlStateOpen, v.code, ParenClose>>

\* err.Error()
RECURSIVE ErrorText(_)
ErrorText(e) ==
    IF e = << >> THEN << >>
    ELSE IF e[1].id = "pgconn.PgError" THEN PgErrorText(e[1])
    ELSE IF e[1].id = "kit.Error" /\ errFormat = "messageAndCause" /\ Len(e) > 1
         THEN e[1].msg \o <<": ">> \o ErrorText(Tail(e))
    ELSE e[1].msg

SetMin(S) == CHOOSE x \in S : \A y \in S : x <= y

SetMax(S) == CHOOSE x \in S : \A y \in S : x >= y

\* regexp `\(SQLSTATE (.*)\)` .FindStringSubmatch(text): the leftmost
\* "(SQLSTATE ", then as much as possible up to the last ")" of the text;
\* the match and the captured group, or nothing.
FindStringSubmatch(text) ==
    LET opens == {i \in DOMAIN text : text[i] = SqlStateOpen}
    IN IF opens = {} THEN << >>
       ELSE LET i == SetMin(opens)
                closes == {j \in DOMAIN text : j > i /\ text[j] = ParenClose}
            IN IF closes = {} THEN << >>
               ELSE <<SubSeq(text, i, SetMax(closes)), SubSeq(text, i + 1, SetMax(closes) - 1)>>

\* _dbErrToError
DbErrToError(err) ==
    IF err = << >> THEN << >>
    ELSE LET code == FindStringSubmatch(ErrorText(err))
         IN IF Len(code) = 2 /\ \E c \in IntegrityCodes : code[2] = <<c>>
            THEN WrapWithDepth("ErrDatabaseIntegrityViolation", err)
            ELSE IF ErrorText(err) = NoRowsText
                 THEN WrapWithDepth("ErrDatabaseNoRows", err)
                 ELSE WrapWithDepth("ErrDatabaseGeneric", err)

\* _chErrToError: `switch err { case cache.ErrCacheMiss:` compares the error
\* value itself with the sentinel.
ChErrToError(err) ==
    IF err = << >> THEN << >>
    ELSE IF err[1].id = "cache.ErrCacheMiss"
         THEN WrapWithDepth("ErrCacheMiss", err)
         ELSE WrapWithDepth("ErrCacheGeneric", err)

Classifiers == {"database", "cache"}

Classify(c, err) == IF c = "database" THEN DbErrToError(err) ELSE ChErrToError(err)

\* The kind of the taxonomy an error of the repository stands for.
ErrorKind(e) ==
    IF e = << >> THEN NIL
    ELSE CASE e[1].kind = "ErrDatabaseIntegrityViolation" -> "IntegrityViolation"
           [] e[1].kind \in {"ErrDatabaseNoRows", "ErrCacheMiss"} -> "NotFound"
           [] e[1].kind \in {"ErrDatabaseGeneric", "ErrCacheGeneric"} -> "Generic"
           [] OTHER -> "raw"

\* ctx.Err() of a cancelled context.
ContextCanceled == <<ErrValue("context.Canceled", "raw", "", <<"context canceled">>)>>

\* What a driver call or a scan of the rows returns: nil, the no-rows
\* sentinel, a server error, another error.
DriverOutcomes ==
    {<< >>,
     <<ErrValue("pgx.ErrNoRows", "raw", "", NoRowsText)>>,
     <<ErrValue("pgconn.PgError", "raw", UniqueViolation, <<"text">>)>>,
     <<ErrValue("other", "raw", "", <<"text">>)>>}

\* Mutant of DriverStatements: a failed statement is issued once more.
DriverStatements_RetryOnError(drv) == IF drv = << >> THEN 1 ELSE 2

\* The statements Database.Query and Database.Exec hand to the driver: the
\* one call of pool.Query / Tx.Query (pool.Exec / Tx.Exec), whatever it
\* returns.
DriverStatements(drv) == 1

\* What Database.Query and Database.Exec return: the first of the driver
\* error, ctx.Err() and (Query only) the scan error that is not nil,
\* classified; nil when there is none.
StatementReturns(kind, drv, ctxErr, scan) ==
    IF drv # << >> THEN DbErrToError(drv)
    ELSE IF ctxErr # << >> THEN DbErrToError(ctxErr)
    ELSE IF kind = "query" /\ scan # << >> THEN DbErrToError(scan)
    ELSE << >>

\* No classifier has been handed anything.
ClIdle ==
    /\ rawErr = << >>
    /\ classifier = "database"
    /\ errFormat = "message"
    /\ once = << >>
    /\ twice = << >>
    /\ pass = 0

\* ---------------------------------------------------------------- migrator

MigVariants == {"new", "old"}

\* The width of uint, scaled down: every version is far below 2^UintWidth.
UintWidth == 16

\* uint(schemaVersion)
ToUint(d) == d % (2 ^ UintWidth)

\* The versions a caller asks for: those that exist, 0, one past the last
\* migration, and a negative one.
Desired == (0 - 1)..(MaxVersion + 1)

\* A persisted schema version: version 0 is the schema no migration has
\* been applied to (migrate.ErrNilVersion).
Schema(v, dirty) == [version |-> v, dirty |-> dirty]

\* Whether golang-migrate has a migration of that version.
VersionExists(v) == v \in 1..MaxVersion

\* Mutant of NextUp: the next migration is skipped.
NextUp_SkipsOne(v) == v + 2

\* Migrate(target) upwards: the migration run next when the schema is at v.
NextUp(v) == v + 1

\* Mutant of ApplyDecision: no check that the desired version is behind.
ApplyDecision_NoBehindCheck(cur, bad, want) ==
    IF bad THEN "dirty"
    ELSE IF cur = want THEN "none"
    ELSE "migrate"

\* Mutant of ApplyDecision: no check of the dirty flag.
ApplyDecision_NoDirtyCheck(cur, bad, want) ==
    IF cur = want THEN "none"
    ELSE IF cur > want THEN "behind"
    ELSE "migrate"

\* Migrator.Apply, between the read of the version and Migrate.
ApplyDecision(cur, bad, want) ==
    IF bad THEN "dirty"
    ELSE IF cur = want THEN "none"
    ELSE IF cur > want THEN "behind"
    ELSE "migrate"

\* Migrator.Assert, after the read of the version.
AssertDecision(cur, bad, want) ==
    IF bad THEN "dirty"
    ELSE IF cur > want THEN "behind"
    ELSE IF cur < want THEN "ahead"
    ELSE "none"

\* Mutant of RollbackDecision: no check that the desired version is ahead.
RollbackDecision_NoAheadCheck(cur, want) ==
    IF cur = want THEN "none"
    ELSE "migrate"

\* Migrator.Rollback, after the dirty flag has been dealt with.
RollbackDecision(cur, want) ==
    IF cur = want THEN "none"
    ELSE IF cur < want THEN "ahead"
    ELSE "migrate"

\* The version Rollback goes on with when the schema was dirty: the newer
\* Migrator decrements it (schemaVersion--), the older one does not.
RollbackDesired(v, bad, d) == IF v = "new" /\ bad THEN d - 1 ELSE d

\* Whether Rollback to that version calls Down() and not Migrate().
RollbackUsesDown(v, d) == v = "new" /\ d = 0

\* The version asked for, and the schemas started from, where operations
\* overlap: the first migration; the empty schema, and one the first
\* migration has left dirty.
RaceDesired == {1}

\* The operations called where they overlap: one that ends once it has read
\* the version and one that migrates; all four end with the same select on
\* self.done.
RaceOps == {"assert", "apply"}

\* How many operations are called where they overlap.
MaxRaceCalls == 2

RaceSchemas == {Schema(0, FALSE), Schema(1, TRUE)}

\* The operations of the Migrator; the older one has no Version.
MigOps(v) == IF v = "new" THEN {"version", "assert", "apply", "rollback"}
             ELSE {"assert", "apply", "rollback"}

NoMigCall ==
    [op |-> "none", d |-> 0, hasDeadline |-> FALSE, before |-> Schema(0, FALSE),
     state |-> "idle", err |-> "", expired |-> FALSE, n |-> 0]

\* The functions that run at one time: that of the call in progress or made
\* last, and one an earlier call's deadline has abandoned.
Slots == {"cur", "old"}

Other(sl) == IF sl = "cur" THEN "old" ELSE "cur"

NoMigWork ==
    [pc |-> "none", op |-> "none", d |-> 0, dir |-> "none", target |-> 0, err |-> "",
     stopped |-> FALSE]

\* The function of the call in progress or made last.
mwork == works["cur"]

\* Whether a function handed to util.Deadline has not ended yet, and whether
\* it is in its body, before the select on self.done.
WorkRunning(w) == w.pc \notin {"none", "done"}

Executing(w) == w.pc \in {"start", "migrating"}

\* A close of a closed channel has panicked: the process is gone.
MigPanicked == \E sl \in Slots : works[sl].pc = "panicked"

\* golang-migrate's lock is held by the other function while it migrates.
MigrateLocked(sl) == works[Other(sl)].pc = "migrating"

\* make(chan struct{}, 1): an open channel, made by the constructor or by
\* the operation that is now the one made last.
MakeDone(owner) == [owner |-> owner, closes |-> 0, closedBy |-> "none"]

\* Mutant of CtorDone: the constructor leaves the channel open.
CtorDone_LeftOpen == MakeDone("ctor")

\* NewMigrator: done := make(chan struct{}, 1); close(done).
CtorDone == [owner |-> "ctor", closes |-> 1, closedBy |-> "ctor"]

\* close(ch) by the function in slot sl; closedBy keeps who closed it first.
CloseChan(ch, sl) ==
    [ch EXCEPT !.closes = IF @ < 2 THEN @ + 1 ELSE @,
               !.closedBy = IF @ = "none" THEN sl ELSE @]

NotClosing ==
    [state |-> "none", fn |-> "none", hasDeadline |-> FALSE, expired |-> FALSE,
     stop |-> FALSE, inFlight |-> FALSE, handleClosed |-> FALSE, err |-> "", ch |-> "none"]

\* Whether the channel Close waits on is closed: the one self.done holds, or
\* one an operation started since has replaced there.
WaitClosed ==
    \/ closing.ch = "done" /\ done.closes > 0
    \/ closing.ch = "staleClosed"

\* The migrator is not in use.
MgIdle ==
    /\ migVariant = "new"
    /\ schema = Schema(0, FALSE)
    /\ mcall = NoMigCall
    /\ works = [sl \in Slots |-> NoMigWork]
    /\ applied = << >>
    /\ mlog = << >>
    /\ done = CtorDone
    /\ closing = NotClosing
    /\ concurrent = FALSE

\* ---------------------------------------------------------------- Init

InitCommon ==
    /\ variant \in Variants
    /\ cancelled = [c \in Chains |-> FALSE]
    /\ stack = [c \in Chains |-> << >>]
    /\ txs = << >>
    /\ calls = [c \in Chains |-> << >>]
    /\ queries = [c \in Chains |-> << >>]
    /\ ncalls = [c \in Chains |-> 0]
    /\ raised = [c \in Chains |-> NoPanic]
    /\ panicking = [c \in Chains |-> NoPanic]
    /\ fnOut = [c \in Chains |-> "none"]
    /\ nestedFailed = [c \in Chains |-> FALSE]
    /\ res = [c \in Chains |-> Idle]
    /\ OpsIdle
    /\ ClIdle
    /\ MgIdle

\* One call chain.
Init ==
    /\ InitCommon
    /\ cfgIso \in LevelNames \cup {NIL}
    /\ chains = {1}
    /\ limits = [depth |-> MaxDepth, calls |-> MaxCalls, queries |-> MaxQueries,
                 levels |-> LevelNames \cup {NIL},
                 kinds |-> {"query"}, outcomes |-> {<< >>}]

\* Two call chains on sibling contexts forked from a parent without a handle.
InitSiblings ==
    /\ InitCommon
    /\ cfgIso = NIL
    /\ chains = Chains
    /\ limits = [depth |-> SibDepth, calls |-> SibCalls, queries |-> MaxQueries,
                 levels |-> {NIL, "IsoLvlSerializable"},
                 kinds |-> {"query"}, outcomes |-> {<< >>}]

\* ------------------------------------------------------------- helpers

\* The levels a caller can pass: the older Transaction takes none.
Requestable == IF variant = "new" THEN limits.levels ELSE {NIL}

\* The top call of chain c returns r (ReturnedNil or an error) to whoever called it.
Returns(c, r) ==
    /\ stack' = [stack EXCEPT ![c] = Pop(@)]
    /\ IF Depth(c) = 1
       THEN /\ res' = [res EXCEPT ![c] = r]
            /\ UNCHANGED nestedFailed
       ELSE /\ nestedFailed' = [nestedFailed EXCEPT ![c] = @ \/ r.kind = "err"]
            /\ UNCHANGED res

\* transaction.Rollback(ctx) on handle h by the top frame of chain c, after
\* the driver calls `before` (log entries) made in the same step on `t`.
RollbackIn(c, t, before, h, ok) ==
    /\ txs' = [t EXCEPT ![h].state = RollbackState(@, ok)]
    /\ calls' = [calls EXCEPT ![c] =
          @ \o before \o
          <<LogEntry("rollback", h, Top(c), Depth(c), RollbackErr(t[h].state, ok))>>]

\* Mutant of AfterBeginError: fn is invoked although BeginTx failed.
AfterBeginError_InvokesFn(s, f) == InvokeFn(Append(s, f))

\* The calls in progress once BeginTx has returned an error: the call
\* returns at once, nothing of it is left.
AfterBeginError(s, f) == s

\* Database.Transaction(ctx, level, fn) entered by chain c with a context
\* carrying ctx, up to the point where fn is about to run (nested branch) or
\* BeginTx has returned (outermost branch).
Enter(c, ctx, lvl, ok) ==
    LET h == CtxValue(ctx, OpenHandles)
        d == Depth(c) + 1
        f == [ctx |-> h, lvl |-> lvl, own |-> NoTx, pc |-> "chk1", runs |-> 0]
        new == Len(txs) + 1
    IN  IF IsNested(h)
        THEN /\ stack' = [stack EXCEPT ![c] = InvokeFn(Append(@, f))]
             /\ UNCHANGED <<txs, calls, nestedFailed>>
             /\ res' = [res EXCEPT ![c] = Running]
        ELSE IF ok
        THEN /\ txs' = Append(txs, [owner |-> c, depth |-> d, req |-> lvl, state |-> "open",
                                   iso |-> BeginIsoLevel(variant, lvl, cfgIso)])
             /\ stack' = [stack EXCEPT ![c] = Append(@, [f EXCEPT !.own = new])]
             /\ calls' = [calls EXCEPT ![c] = Append(@, LogEntry("begin", new, f, d, NIL))]
             /\ res' = [res EXCEPT ![c] = Running]
             /\ UNCHANGED nestedFailed
        ELSE /\ calls' = [calls EXCEPT ![c] = Append(@, LogEntry("begin", NoTx, f, d, "beginErr"))]
             /\ stack' = [stack EXCEPT ![c] = AfterBeginError(@, f)]
             /\ UNCHANGED txs
             /\ IF d = 1
                THEN /\ res' = [res EXCEPT ![c] = TransactionFailed(variant, Err("beginErr"), NIL)]
                     /\ UNCHANGED nestedFailed
                ELSE /\ nestedFailed' = [nestedFailed EXCEPT ![c] = TRUE]
                     /\ UNCHANGED res

\* One call chain whose Query and Exec calls can fail, in the driver call or
\* in the scan of the rows.
InitStatements ==
    /\ InitCommon
    /\ cfgIso = NIL
    /\ chains = {1}
    /\ limits = [depth |-> SibDepth, calls |-> SibCalls, queries |-> StmtQueries,
                 levels |-> {NIL}, kinds |-> {"query", "exec"}, outcomes |-> DriverOutcomes]

\* -------------------------------------------------------------- actions

\* The ambient context of chain c is cancelled (by its caller or its deadline).
Cancel(c) ==
    /\ res[c].kind = "running"
    /\ ~cancelled[c]
    /\ cancelled' = [cancelled EXCEPT ![c] = TRUE]
    /\ UNCHANGED <<variant, cfgIso, chains, limits, stack, txs, calls, queries, ncalls,
                   raised, panicking, fnOut, nestedFailed, res>>
    /\ UNCHANGED outsideTx

\* A caller starts chain c: Transaction on a context that carries no handle.
StartChain(c, lvl, ok) ==
    /\ res[c].kind = "idle"
    /\ lvl \in Requestable
    /\ Enter(c, NoTx, lvl, ok)
    /\ UNCHANGED <<variant, cfgIso, chains, limits, cancelled, queries, ncalls, raised,
                   panicking, fnOut>>
    /\ UNCHANGED outsideTx

\* err = ctx.Err() right after BeginTx; then the deferred recover is registered
\* and fn is invoked.
TxAfterBegin(c) ==
    /\ Depth(c) > 0
    /\ Top(c).pc = "chk1"
    /\ IF cancelled[c]
       THEN Returns(c, TransactionFailed(variant, Err("ctxErr"), NIL))
       ELSE /\ stack' = [stack EXCEPT ![c] = InvokeFn(@)]
            /\ UNCHANGED <<res, nestedFailed>>
    /\ UNCHANGED <<variant, cfgIso, chains, limits, cancelled, txs, calls, queries, ncalls,
                   raised, panicking, fnOut>>
    /\ UNCHANGED outsideTx

\* The running body issues a Query or Exec, with the context it was given
\* or with one that carries no handle.
\* It is a Query or an Exec (kind); the driver call returns drv and, for a
\* Query whose driver call returned rows, the scan returns scan.
BodyQuery(c, bare, kind, drv, scan) ==
    /\ Depth(c) > 0
    /\ Top(c).pc = "body"
    /\ Len(queries[c]) < limits.queries
    /\ (kind = "exec" \/ drv # << >>) => scan = << >>
    /\ LET ctx == IF bare THEN NoTx ELSE BodyCtx(Top(c))
           ctxErr == IF ~bare /\ cancelled[c] THEN ContextCanceled ELSE << >>
       IN  queries' = [queries EXCEPT ![c] =
              Append(@, [bare |-> bare, ctx |-> ctx,
                         target |-> QueryTarget(CtxValue(ctx, OpenHandles)),
                         kind |-> kind, drv |-> drv, ctxErr |-> ctxErr, scan |-> scan,
                         issued |-> DriverStatements(drv),
                         ret |-> StatementReturns(kind, drv, ctxErr, scan)])]
    /\ UNCHANGED <<variant, cfgIso, chains, limits, cancelled, stack, txs, calls, ncalls,
                   raised, panicking, fnOut, nestedFailed, res>>
    /\ UNCHANGED outsideTx

\* The running body calls Transaction again with the context it was given.
BodyCall(c, lvl, ok) ==
    /\ Depth(c) > 0
    /\ Top(c).pc = "body"
    /\ Depth(c) < limits.depth
    /\ ncalls[c] < limits.calls
    /\ lvl \in Requestable
    /\ ncalls' = [ncalls EXCEPT ![c] = @ + 1]
    /\ Enter(c, BodyCtx(Top(c)), lvl, ok)
    /\ UNCHANGED <<variant, cfgIso, chains, limits, cancelled, queries, raised, panicking, fnOut>>
    /\ UNCHANGED outsideTx

\* The running body returns e.  A nested call hands fn's result back; the
\* call that began the handle rolls back on an error and goes on to the
\* commit otherwise.
BodyReturn(c, e, rbOk) ==
    /\ Depth(c) > 0
    /\ Top(c).pc = "body"
    /\ LET f == Top(c)
       IN  /\ fnOut' = IF Depth(c) = 1
                       THEN [fnOut EXCEPT ![c] = IF e = NIL THEN "nil" ELSE "err"]
                       ELSE fnOut
           /\ IF f.own = NoTx
              THEN /\ IF NestedDriverOps(e) = << >>
                      THEN UNCHANGED <<txs, calls>>
                      ELSE RollbackIn(c, txs, << >>, f.ctx, rbOk)
                   /\ Returns(c, IF e = NIL THEN ReturnedNil
                                 ELSE [kind |-> "err", code |-> "ErrDatabaseTransactionFailed",
                                       cause |-> Err(e)])
              ELSE IF FnFailed(e)
              THEN /\ RollbackIn(c, txs, << >>, f.own, rbOk)
                   /\ Returns(c, TransactionFailed(variant, Err(e),
                                     RollbackErr(txs[f.own].state, rbOk)))
              ELSE /\ stack' = [stack EXCEPT ![c] = SetTopPc(@, "chk2")]
                   /\ UNCHANGED <<txs, calls, res, nestedFailed>>
    /\ UNCHANGED <<variant, cfgIso, chains, limits, cancelled, queries, ncalls, raised, panicking>>
    /\ UNCHANGED outsideTx

\* The running body panics with pv: the panic unwinds to the deferred
\* function of the call that began the handle.
BodyPanic(c, pv) ==
    /\ Depth(c) > 0
    /\ Top(c).pc = "body"
    /\ raised' = [raised EXCEPT ![c] = pv]
    /\ panicking' = [panicking EXCEPT ![c] = pv]
    /\ stack' = [stack EXCEPT ![c] = Unwind(@)]
    /\ fnOut' = IF Len(Unwind(stack[c])) <= 1 THEN [fnOut EXCEPT ![c] = "panic"] ELSE fnOut
    /\ res' = IF Unwind(stack[c]) = << >>
              THEN [res EXCEPT ![c] = [kind |-> "panic", val |-> pv]]
              ELSE res
    /\ UNCHANGED <<variant, cfgIso, chains, limits, cancelled, txs, calls, queries, ncalls,
                   nestedFailed>>
    /\ UNCHANGED outsideTx

\* The deferred function: recover, roll back, panic again.
TxRecover(c, rbOk) ==
    /\ Depth(c) > 0
    /\ Top(c).pc = "recover"
    /\ LET f == Top(c)
           nv == RepanicValue(variant, panicking[c], RollbackErr(txs[f.own].state, rbOk))
           rest == Unwind(Pop(stack[c]))
       IN  /\ RollbackIn(c, txs, << >>, f.own, rbOk)
           /\ panicking' = [panicking EXCEPT ![c] = nv]
           /\ stack' = [stack EXCEPT ![c] = rest]
           /\ fnOut' = IF Len(rest) = 1 THEN [fnOut EXCEPT ![c] = "panic"] ELSE fnOut
           /\ res' = IF rest = << >>
                     THEN [res EXCEPT ![c] = [kind |-> "panic", val |-> nv]]
                     ELSE res
    /\ UNCHANGED <<variant, cfgIso, chains, limits, cancelled, queries, ncalls, raised,
                   nestedFailed>>
    /\ UNCHANGED outsideTx

\* err = ctx.Err() after fn, then transaction.Commit(ctx); a cancelled
\* context or a failed commit rolls back and returns.
TxCommit(c, ok, rbOk) ==
    /\ Depth(c) > 0
    /\ Top(c).pc = "chk2"
    /\ LET f == Top(c)
           h == f.own
       IN  IF cancelled[c]
           THEN /\ RollbackIn(c, txs, << >>, h, rbOk)
                /\ Returns(c, TransactionFailed(variant, Err("ctxErr"),
                                  RollbackErr(txs[h].state, rbOk)))
           ELSE LET t == [txs EXCEPT ![h].state = CommitState(@, ok)]
                    e == LogEntry("commit", h, f, Depth(c), IF ok THEN NIL ELSE "commitErr")
                IN  IF ok
                    THEN /\ txs' = t
                         /\ calls' = [calls EXCEPT ![c] = Append(@, e)]
                         /\ stack' = [stack EXCEPT ![c] = SetTopPc(@, "chk3")]
                         /\ UNCHANGED <<res, nestedFailed>>
                    ELSE /\ RollbackIn(c, t, <<e>>, h, rbOk)
                         /\ Returns(c, TransactionFailed(variant, Err("commitErr"),
                                           RollbackErr(t[h].state, rbOk)))
    /\ UNCHANGED <<variant, cfgIso, chains, limits, cancelled, queries, ncalls, raised,
                   panicking, fnOut>>
    /\ UNCHANGED outsideTx

\* err = ctx.Err() after the commit: a cancelled context rolls back (the
\* transaction is closed by then) and returns the error; otherwise nil.
TxAfterCommit(c, rbOk) ==
    /\ Depth(c) > 0
    /\ Top(c).pc = "chk3"
    /\ IF cancelled[c]
       THEN /\ RollbackIn(c, txs, << >>, Top(c).own, rbOk)
            /\ Returns(c, TransactionFailed(variant, Err("ctxErr"),
                              RollbackErr(txs[Top(c).own].state, rbOk)))
       ELSE /\ Returns(c, ReturnedNil)
            /\ UNCHANGED <<txs, calls>>
    /\ UNCHANGED <<variant, cfgIso, chains, limits, cancelled, queries, ncalls, raised,
                   panicking, fnOut>>
    /\ UNCHANGED outsideTx

Next ==
    \/ \E c \in chains : Cancel(c)
    \/ \E c \in chains, lvl \in LevelNames \cup {NIL}, ok \in BOOLEAN : StartChain(c, lvl, ok)
    \/ \E c \in chains : TxAfterBegin(c)
    \/ \E c \in chains, bare \in BOOLEAN, kind \in limits.kinds, drv \in limits.outcomes,
          scan \in limits.outcomes : BodyQuery(c, bare, kind, drv, scan)
    \/ \E c \in chains, lvl \in LevelNames \cup {NIL}, ok \in BOOLEAN : BodyCall(c, lvl, ok)
    \/ \E c \in chains, e \in {NIL, "fnErr"}, rbOk \in BOOLEAN : BodyReturn(c, e, rbOk)
    \/ \E c \in chains, pv \in PanicValues : BodyPanic(c, pv)
    \/ \E c \in chains, rbOk \in BOOLEAN : TxRecover(c, rbOk)
    \/ \E c \in chains, ok \in BOOLEAN, rbOk \in BOOLEAN : TxCommit(c, ok, rbOk)
    \/ \E c \in chains, rbOk \in BOOLEAN : TxAfterCommit(c, rbOk)

\* Sibling chains: the Transaction calls alone (Query and Exec begin, commit
\* and roll back nothing).
NextSiblings ==
    \/ \E c \in chains : Cancel(c)
    \/ \E c \in chains, lvl \in LevelNames \cup {NIL}, ok \in BOOLEAN : StartChain(c, lvl, ok)
    \/ \E c \in chains : TxAfterBegin(c)
    \/ \E c \in chains, lvl \in LevelNames \cup {NIL}, ok \in BOOLEAN : BodyCall(c, lvl, ok)
    \/ \E c \in chains, e \in {NIL, "fnErr"}, rbOk \in BOOLEAN : BodyReturn(c, e, rbOk)
    \/ \E c \in chains, pv \in PanicValues : BodyPanic(c, pv)
    \/ \E c \in chains, rbOk \in BOOLEAN : TxRecover(c, rbOk)
    \/ \E c \in chains, ok \in BOOLEAN, rbOk \in BOOLEAN : TxCommit(c, ok, rbOk)
    \/ \E c \in chains, rbOk \in BOOLEAN : TxAfterCommit(c, rbOk)

Spec == Init /\ [][Next]_vars

SpecSiblings == InitSiblings /\ [][NextSiblings]_vars

SpecStatements == InitStatements /\ [][Next]_vars

\* ----------------------------------------------- lifecycle calls: actions

\* Only lifecycle calls are made: the transaction machinery stays idle.
InitOps ==
    /\ InitCommon
    /\ variant = "new"
    /\ cfgIso = NIL
    /\ chains = {}
    /\ limits = [depth |-> 0, calls |-> 0, queries |-> 0, levels |-> {NIL},
                 kinds |-> {"query"}, outcomes |-> {<< >>}]

\* Whether a dial attempt has left a pool open: the attempt returns the
\* error of a failed ping without closing the pool the dial has built, and
\* the constructor closes no pool on its error paths.
PoolLeftOpen(dial) == dial.ended /\ dial.conn # NoPool

\* What the caller holds once util.Deadline has returned e, the local
\* variable of the constructor holding p.
CallerGets(e, p) ==
    IF call.o = "connect"
    THEN [state |-> "returned", derr |-> e,
          client |-> Connected(call.r, e, p).client, err |-> Connected(call.r, e, p).err]
    ELSE [state |-> "returned", derr |-> e, client |-> NoClient, err |-> Surface(call.r, e)]

\* A caller makes a lifecycle call: operation o of resource r, with a retry
\* configuration (attempts, retriables, delays) and a context with or without
\* a deadline.  util.Deadline starts the function.
CallStart(r, o, n, m, di, dl, d, bm, pf, pc) ==
    /\ caller.state = "idle"
    /\ o \in OpsOf(r)
    /\ o # "connect" => (n = 1 /\ m = "empty" /\ di = 0 /\ dl = 0)
    /\ o # "health" => ~(bm \/ pf \/ pc)
    /\ call' = [r |-> r, o |-> o, attempts |-> n, retriables |-> m, matches |-> Matches(m),
                initialDelay |-> di, limitDelay |-> dl, hasDeadline |-> d,
                belowMin |-> bm, probeFails |-> pf, preCancelled |-> pc]
    /\ caller' = [caller EXCEPT !.state = "waiting"]
    /\ worker' = [state |-> IF o = "connect" THEN "retry" ELSE "running",
                  attempt |-> 0, err |-> NoErr]
    /\ UNCHANGED <<deadline, pool, dials>>
    /\ UNCHANGED outsideOps

\* util.ExponentialRetry invokes the dial attempt with the next attempt
\* number, after the delay that follows a failed attempt.  Neither the retry loop nor the attempt looks at the exceeded
\* channel: the loop goes on whether or not the deadline has expired.
AttemptStart ==
    /\ worker.state = "retry"
    /\ worker' = [worker EXCEPT !.state = "attempt", !.attempt = @ + 1]
    /\ dials' = Append(dials, [n |-> AttemptNumber(worker.attempt + 1),
                               delay |-> IF worker.attempt = 0 THEN 0
                                         ELSE Delay(worker.attempt, call.initialDelay,
                                                    call.limitDelay),
                               late |-> deadline.expired,
                               ended |-> FALSE, ok |-> FALSE, conn |-> NoPool,
                               endLate |-> FALSE])
    /\ UNCHANGED <<call, caller, deadline, pool>>
    /\ UNCHANGED outsideOps

\* The dial attempt ends: the dial and the ping succeed or fail, the local
\* variable is assigned what the dial returned, and the retry policy decides
\* whether another attempt follows.  When the function is over and the caller
\* still waits, util.Deadline returns and the constructor with it.
AttemptEnd(dialOk, pingOk) ==
    /\ worker.state = "attempt"
    /\ DialCanFail(call.r) \/ dialOk
    /\ (~dialOk \/ ~Pings(call.r)) => pingOk
    /\ LET n == worker.attempt
           ok == dialOk /\ pingOk
           conn == IF dialOk THEN n ELSE NoPool
           e == IF ok THEN NoErr
                ELSE Wrap("Generic", call.r, <<Raw(IF dialOk THEN "pingErr" ELSE "dialErr")>>)
           again == ~ok /\ ShouldRetry(n, call.attempts, call.matches)
       IN  /\ pool' = conn
           /\ dials' = [dials EXCEPT ![n] = [@ EXCEPT !.ended = TRUE, !.ok = ok, !.conn = conn,
                                                       !.endLate = deadline.expired]]
           /\ worker' = IF again THEN [worker EXCEPT !.state = "retry"]
                        ELSE [state |-> "done", attempt |-> n, err |-> e]
           /\ caller' = IF ~again /\ caller.state = "waiting"
                        THEN CallerGets(DeadlineFnDone(e), conn)
                        ELSE caller
    /\ UNCHANGED <<call, deadline>>
    /\ UNCHANGED outsideOps

\* The function of Health or Close ends; when the caller still waits,
\* util.Deadline returns what the function returned.
FnFinish(ok) ==
    /\ worker.state = "running"
    /\ call.o = "health" => ok
    /\ LET e == IF call.o = "health"
                THEN HealthFn(call.r, call.belowMin, call.probeFails,
                              call.preCancelled \/ deadline.expired)
                ELSE CloseFn(call.r, ok)
       IN  /\ worker' = [worker EXCEPT !.state = "done", !.err = e]
           /\ caller' = IF caller.state = "waiting"
                        THEN CallerGets(DeadlineFnDone(e), pool)
                        ELSE caller
    /\ UNCHANGED <<call, deadline, pool, dials>>
    /\ UNCHANGED outsideOps

\* The deadline of the context expires while the caller waits: util.Deadline
\* signals the exceeded channel and returns ErrDeadlineExceeded at once; the
\* function is left running.
DeadlineExpire ==
    /\ call.hasDeadline
    /\ ~deadline.expired
    /\ caller.state = "waiting"
    /\ deadline' = [expired |-> TRUE, signalled |-> SignalOnExpiry(deadline.signalled)]
    /\ caller' = [CallerGets(ErrDeadlineExceeded, pool) EXCEPT
                     !.state = DeadlineOnExpiry(caller.state)]
    /\ UNCHANGED <<call, worker, pool, dials>>
    /\ UNCHANGED outsideOps

NextOps ==
    \/ \E r \in Resources, o \in {"connect", "health", "close"}, n \in 1..MaxAttempts,
          m \in RetriableLists, di \in InitialDelays, dl \in LimitDelays, d \in BOOLEAN,
          bm \in BOOLEAN, pf \in BOOLEAN, pc \in BOOLEAN :
          CallStart(r, o, n, m, di, dl, d, bm, pf, pc)
    \/ AttemptStart
    \/ \E dialOk \in BOOLEAN, pingOk \in BOOLEAN : AttemptEnd(dialOk, pingOk)
    \/ \E ok \in BOOLEAN : FnFinish(ok)
    \/ DeadlineExpire

SpecOps == InitOps /\ [][NextOps]_vars

\* ---------------------------------------------------------------- classifying

\* No Transaction call is ever made.
TxIdle ==
    /\ variant = "new"
    /\ cfgIso = NIL
    /\ chains = {}
    /\ limits = [depth |-> 0, calls |-> 0, queries |-> 0, levels |-> {NIL},
                 kinds |-> {"query"}, outcomes |-> {<< >>}]
    /\ cancelled = [c \in Chains |-> FALSE]
    /\ stack = [c \in Chains |-> << >>]
    /\ txs = << >>
    /\ calls = [c \in Chains |-> << >>]
    /\ queries = [c \in Chains |-> << >>]
    /\ ncalls = [c \in Chains |-> 0]
    /\ raised = [c \in Chains |-> NoPanic]
    /\ panicking = [c \in Chains |-> NoPanic]
    /\ fnOut = [c \in Chains |-> "none"]
    /\ nestedFailed = [c \in Chains |-> FALSE]
    /\ res = [c \in Chains |-> Idle]

\* A classifier is handed a raw error, or nil; nothing else happens.
InitClassify ==
    /\ TxIdle
    /\ OpsIdle
    /\ MgIdle
    /\ rawErr \in RawErrors \cup {<< >>}
    /\ classifier \in Classifiers
    /\ errFormat \in ErrFormats
    /\ once = << >>
    /\ twice = << >>
    /\ pass = 0

\* The classifier is applied to the raw error.
ClassifyRaw ==
    /\ pass = 0
    /\ once' = Classify(classifier, rawErr)
    /\ pass' = 1
    /\ UNCHANGED <<rawErr, classifier, errFormat, twice>>
    /\ UNCHANGED outsideCl

\* The classifier is applied to what it returned.
ClassifyAgain ==
    /\ pass = 1
    /\ twice' = Classify(classifier, once)
    /\ pass' = 2
    /\ UNCHANGED <<rawErr, classifier, errFormat, once>>
    /\ UNCHANGED outsideCl

NextClassify ==
    \/ ClassifyRaw
    \/ ClassifyAgain

SpecClassify == InitClassify /\ [][NextClassify]_vars

\* ---------------------------------------------------------------- migrating

\* A migrator on a schema at some version, clean or left dirty by a failed
\* migration, whose callers call one operation after the other has ended.
InitMigrator ==
    /\ TxIdle
    /\ OpsIdle
    /\ ClIdle
    /\ migVariant \in MigVariants
    /\ schema \in {Schema(v, b) : v \in 0..MaxVersion, b \in BOOLEAN} \ {Schema(0, TRUE)}
    /\ mcall = NoMigCall
    /\ works = [sl \in Slots |-> NoMigWork]
    /\ applied = << >>
    /\ mlog = << >>
    /\ done = CtorDone
    /\ closing = NotClosing
    /\ concurrent = FALSE

\* The same migrator, whose callers also start an operation while a function
\* abandoned by its deadline runs on, or while Close is in progress.
InitMigratorRaces ==
    /\ TxIdle
    /\ OpsIdle
    /\ ClIdle
    /\ migVariant \in MigVariants
    /\ schema \in RaceSchemas
    /\ mcall = NoMigCall
    /\ works = [sl \in Slots |-> NoMigWork]
    /\ applied = << >>
    /\ mlog = << >>
    /\ done = CtorDone
    /\ closing = NotClosing
    /\ concurrent = TRUE

\* The body of the function handed to util.Deadline ends with err: what is
\* left is the select on self.done.
WorkEnds(sl, err, stopped) ==
    works' = [works EXCEPT ![sl] = [@ EXCEPT !.pc = "select", !.err = err, !.stopped = stopped]]

\* The function goes on to Migrate(target) or Down(), in direction dir.
WorkMigrates(sl, dir, target) ==
    works' = [works EXCEPT ![sl] = [@ EXCEPT !.pc = "migrating", !.dir = dir, !.target = target]]

\* What the function logs reaches the log of the call in progress.
Log(sl, msgs) == mlog' = IF sl = "cur" THEN mlog \o msgs ELSE mlog

\* A caller calls Version, Assert, Apply or Rollback with the desired version
\* d and a context with or without a deadline: self.done is made anew and
\* the function is handed to util.Deadline. A function the deadline of the
\* call before has abandoned runs on beside the new one.
MigCall(op, d, dl) ==
    /\ ~MigPanicked
    /\ mcall.state \in {"idle", "returned"}
    /\ ~closing.handleClosed
    /\ IF concurrent
       THEN ~WorkRunning(works["cur"]) \/ (mcall.expired /\ ~WorkRunning(works["old"]))
       ELSE ~WorkRunning(works["cur"]) /\ closing.state = "none"
    /\ op \in MigOps(migVariant)
    /\ op = "version" => d = 0
    /\ concurrent => (op \in RaceOps /\ d \in RaceDesired /\ mcall.n < MaxRaceCalls)
    /\ mcall' = [op |-> op, d |-> d, hasDeadline |-> dl, before |-> schema,
                 state |-> "waiting", err |-> "", expired |-> FALSE,
                 n |-> IF concurrent THEN mcall.n + 1 ELSE 0]
    /\ works' = [cur |-> [NoMigWork EXCEPT !.pc = "start", !.op = op, !.d = d],
                 old |-> IF WorkRunning(works["cur"]) THEN works["cur"] ELSE works["old"]]
    /\ applied' = << >>
    /\ mlog' = << >>
    /\ done' = MakeDone("cur")
    /\ closing' = IF closing.fn = "blocked" /\ closing.ch = "done"
                  THEN [closing EXCEPT !.ch = IF done.closes > 0 THEN "staleClosed"
                                              ELSE "staleOpen"]
                  ELSE closing
    /\ UNCHANGED <<migVariant, schema, concurrent>>
    /\ UNCHANGED outsideMg

\* Migrator.Version, the body of its function once the version is read.
VersionBody(sl) ==
    /\ WorkEnds(sl, "", FALSE)
    /\ UNCHANGED <<schema, mlog>>

\* Migrator.Assert, the body of its function once the version is read.
AssertBody(sl, cur, bad, want) ==
    LET dec == AssertDecision(cur, bad, want)
    IN  /\ WorkEnds(sl, IF dec = "none" THEN "" ELSE dec, FALSE)
        /\ Log(sl, IF dec = "none" THEN <<"asserted">> ELSE << >>)
        /\ UNCHANGED schema

\* Migrate(target): it takes the lock of golang-migrate first, which it
\* does not get while the other function migrates; a target no migration
\* has is refused at once; the others are reached migration by migration,
\* up or down.
CallMigrate(sl, cur, target) ==
    IF MigrateLocked(sl) THEN WorkEnds(sl, "migrateErr", FALSE)
    ELSE IF VersionExists(target)
    THEN WorkMigrates(sl, IF target > cur THEN "up" ELSE "down", target)
    ELSE WorkEnds(sl, "migrateErr", FALSE)

\* Down(): every down migration, under the same lock.
CallDown(sl) ==
    IF MigrateLocked(sl) THEN WorkEnds(sl, "migrateErr", FALSE)
    ELSE WorkMigrates(sl, "down", 0)

\* Migrator.Apply, the body of its function once the version is read.
ApplyBody(sl, cur, bad, want) ==
    LET dec == ApplyDecision(cur, bad, want)
    IN  /\ UNCHANGED schema
        /\ IF dec = "none"
           THEN /\ WorkEnds(sl, "", FALSE)
                /\ Log(sl, <<"noMigrations">>)
           ELSE IF dec \in {"dirty", "behind"}
           THEN /\ WorkEnds(sl, dec, FALSE)
                /\ UNCHANGED mlog
           ELSE /\ Log(sl, <<"toBeApplied">>)
                /\ CallMigrate(sl, cur, want)

\* Migrator.Rollback, the body of its function once the version is read: a
\* schema without version is an error (ErrNilVersion is not let through), a
\* dirty one is forced clean at its version first.
RollbackBody(sl, cur, bad, forceOk) ==
    IF cur = 0
    THEN /\ WorkEnds(sl, "versionErr", FALSE)
         /\ UNCHANGED <<schema, mlog>>
    ELSE IF bad /\ ~forceOk
    THEN /\ WorkEnds(sl, "forceErr", FALSE)
         /\ Log(sl, <<"isDirty">>)
         /\ UNCHANGED schema
    ELSE LET d2 == RollbackDesired(migVariant, bad, works[sl].d)
             dec == RollbackDecision(cur, ToUint(d2))
             l1 == IF bad THEN <<"isDirty">> ELSE << >>
         IN  /\ schema' = Schema(cur, FALSE)
             /\ IF dec = "none"
                THEN /\ WorkEnds(sl, "", FALSE)
                     /\ Log(sl, Append(l1, "noMigrations"))
                ELSE IF dec = "ahead"
                THEN /\ WorkEnds(sl, "ahead", FALSE)
                     /\ Log(sl, l1)
                ELSE /\ Log(sl, Append(l1, "toBeRollbacked"))
                     /\ IF RollbackUsesDown(migVariant, d2)
                        THEN CallDown(sl)
                        ELSE CallMigrate(sl, cur, ToUint(d2))

\* The function reads the version and decides: self.migrator.Version()
\* succeeds or not (verOk), and so does Force on a dirty schema (forceOk),
\* which needs the lock as well.
MigBody(sl, verOk, forceOk) ==
    /\ ~MigPanicked
    /\ works[sl].pc = "start"
    /\ MigrateLocked(sl) => ~forceOk
    /\ IF ~verOk
       THEN /\ WorkEnds(sl, "versionErr", FALSE)
            /\ UNCHANGED <<schema, mlog>>
       ELSE IF works[sl].op = "version" THEN VersionBody(sl)
       ELSE IF works[sl].op = "assert"
       THEN AssertBody(sl, schema.version, schema.dirty, ToUint(works[sl].d))
       ELSE IF works[sl].op = "apply"
       THEN ApplyBody(sl, schema.version, schema.dirty, ToUint(works[sl].d))
       ELSE RollbackBody(sl, schema.version, schema.dirty, forceOk)
    /\ UNCHANGED <<migVariant, mcall, applied, done, closing, concurrent>>
    /\ UNCHANGED outsideMg

\* The message logged when Migrate or Down has returned nil.
SuccessLog(sl) == IF works[sl].op = "apply" THEN "appliedAll" ELSE "rollbackedAll"

\* golang-migrate runs the next migration on the way to the target, or
\* finds the target reached: an up migration v moves the schema to v, a
\* down migration v to v - 1; a migration that fails leaves the schema
\* dirty at the version it was moving to and ends Migrate with its error.
MigStep(sl, ok) ==
    /\ ~MigPanicked
    /\ works[sl].pc = "migrating"
    /\ IF schema.version = works[sl].target
          \/ (works[sl].dir = "up" /\ schema.version > works[sl].target)
       THEN /\ WorkEnds(sl, "", FALSE)
            /\ Log(sl, <<SuccessLog(sl)>>)
            /\ UNCHANGED <<schema, applied>>
       ELSE LET v == IF works[sl].dir = "up" THEN NextUp(schema.version) ELSE schema.version
                to == IF works[sl].dir = "up" THEN v ELSE v - 1
            IN  /\ ok \/ to > 0
                /\ schema' = Schema(to, ~ok)
                /\ applied' = IF sl = "cur"
                              THEN Append(applied, [dir |-> works[sl].dir, v |-> v, ok |-> ok])
                              ELSE applied
                /\ IF ok
                   THEN UNCHANGED <<works, mlog>>
                   ELSE /\ WorkEnds(sl, "migrateErr", FALSE)
                        /\ UNCHANGED mlog
    /\ UNCHANGED <<migVariant, mcall, done, closing, concurrent>>
    /\ UNCHANGED outsideMg

\* Close has asked for a graceful stop: Migrate stops before the next
\* migration and returns nil.
MigStop(sl) ==
    /\ ~MigPanicked
    /\ works[sl].pc = "migrating"
    /\ closing.stop
    /\ WorkEnds(sl, "", TRUE)
    /\ Log(sl, <<SuccessLog(sl)>>)
    /\ UNCHANGED <<migVariant, schema, mcall, applied, done, closing, concurrent>>
    /\ UNCHANGED outsideMg

\* select { case <-self.done: default: ... }: the function looks whether
\* the channel self.done holds at this moment is closed, and ends if so.
MigSelect(sl) ==
    /\ ~MigPanicked
    /\ works[sl].pc = "select"
    /\ works' = [works EXCEPT ![sl].pc = IF done.closes > 0 THEN "done" ELSE "close"]
    /\ UNCHANGED <<migVariant, schema, mcall, applied, mlog, done, closing, concurrent>>
    /\ UNCHANGED outsideMg

\* close(self.done): the function closes the channel self.done holds at
\* this moment, and ends; the close of a closed channel panics.
MigCloseDone(sl) ==
    /\ ~MigPanicked
    /\ works[sl].pc = "close"
    /\ works' = [works EXCEPT ![sl].pc = IF done.closes > 0 THEN "panicked" ELSE "done"]
    /\ done' = CloseChan(done, sl)
    /\ UNCHANGED <<migVariant, schema, mcall, applied, mlog, closing, concurrent>>
    /\ UNCHANGED outsideMg

\* util.Deadline returns what the function returned; the caller returns it.
MigReturn ==
    /\ ~MigPanicked
    /\ mcall.state = "waiting"
    /\ mwork.pc = "done"
    /\ mcall' = [mcall EXCEPT !.state = "returned", !.err = mwork.err]
    /\ UNCHANGED <<migVariant, schema, works, applied, mlog, done, closing, concurrent>>
    /\ UNCHANGED outsideMg

\* The deadline of the call's context expires first: util.Deadline returns
\* ErrDeadlineExceeded, the caller returns ErrMigratorTimedOut, and the
\* function runs on.
MigExpire ==
    /\ ~MigPanicked
    /\ mcall.state = "waiting"
    /\ mcall.hasDeadline
    /\ mcall' = [mcall EXCEPT !.state = "returned", !.err = "TimedOut", !.expired = TRUE]
    /\ UNCHANGED <<migVariant, schema, works, applied, mlog, done, closing, concurrent>>
    /\ UNCHANGED outsideMg

\* Whether Migrator.Close hands its work to util.Deadline: the newer one
\* does, the older one runs it in the caller's own task.
CloseUnderDeadline(v) == v = "new"

\* Migrator.Close(ctx): a graceful stop is asked for, then the work blocks
\* on <-self.done, the channel self.done holds at that moment.
CloseStart(dl) ==
    /\ ~MigPanicked
    /\ closing.state = "none"
    /\ closing' = [NotClosing EXCEPT !.state = "waiting", !.fn = "blocked", !.hasDeadline = dl,
                                     !.stop = TRUE, !.ch = "done",
                                     !.inFlight = \E sl \in Slots : WorkRunning(works[sl])]
    /\ UNCHANGED <<migVariant, schema, mcall, works, applied, mlog, done, concurrent>>
    /\ UNCHANGED outsideMg

\* The channel Close waits on is closed: the receive returns.
CloseReceive ==
    /\ ~MigPanicked
    /\ closing.fn = "blocked"
    /\ WaitClosed
    /\ closing' = [closing EXCEPT !.fn = "closing"]
    /\ UNCHANGED <<migVariant, schema, mcall, works, applied, mlog, done, concurrent>>
    /\ UNCHANGED outsideMg

\* self.migrator.Close() runs: the handle on the database is closed.
CloseProceed(ok) ==
    /\ ~MigPanicked
    /\ closing.fn = "closing"
    /\ closing' = [closing EXCEPT !.fn = "finished", !.handleClosed = TRUE,
                                  !.err = IF closing.state = "returned" THEN @
                                          ELSE IF ok THEN "" ELSE "closeErr",
                                  !.state = IF CloseUnderDeadline(migVariant) THEN @
                                            ELSE "returned"]
    /\ UNCHANGED <<migVariant, schema, mcall, works, applied, mlog, done, concurrent>>
    /\ UNCHANGED outsideMg

\* util.Deadline returns what the work of Close returned.
CloseReturn ==
    /\ ~MigPanicked
    /\ closing.state = "waiting"
    /\ closing.fn = "finished"
    /\ closing' = [closing EXCEPT !.state = "returned"]
    /\ UNCHANGED <<migVariant, schema, mcall, works, applied, mlog, done, concurrent>>
    /\ UNCHANGED outsideMg

\* The deadline of the context given to Close expires while the work is
\* not finished: under util.Deadline the caller gets ErrMigratorTimedOut;
\* without it nobody looks at the context and the caller stays blocked.
CloseExpire ==
    /\ ~MigPanicked
    /\ closing.state = "waiting"
    /\ closing.fn \in {"blocked", "closing"}
    /\ closing.hasDeadline
    /\ ~closing.expired
    /\ closing' = IF CloseUnderDeadline(migVariant)
                  THEN [closing EXCEPT !.expired = TRUE, !.state = "returned", !.err = "TimedOut"]
                  ELSE [closing EXCEPT !.expired = TRUE]
    /\ UNCHANGED <<migVariant, schema, mcall, works, applied, mlog, done, concurrent>>
    /\ UNCHANGED outsideMg

NextMigrator ==
    \/ \E op \in {"version", "assert", "apply", "rollback"}, d \in Desired, dl \in BOOLEAN :
          MigCall(op, d, dl)
    \/ \E sl \in Slots, verOk \in BOOLEAN, forceOk \in BOOLEAN : MigBody(sl, verOk, forceOk)
    \/ \E sl \in Slots, ok \in BOOLEAN : MigStep(sl, ok)
    \/ \E sl \in Slots : MigStop(sl)
    \/ \E sl \in Slots : MigSelect(sl)
    \/ \E sl \in Slots : MigCloseDone(sl)
    \/ MigReturn
    \/ MigExpire
    \/ \E dl \in BOOLEAN : CloseStart(dl)
    \/ CloseReceive
    \/ \E ok \in BOOLEAN : CloseProceed(ok)
    \/ CloseReturn
    \/ CloseExpire

SpecMigrator == InitMigrator /\ [][NextMigrator]_vars

SpecMigratorRaces == InitMigratorRaces /\ [][NextMigrator]_vars

\* ================================================================ claims

\* The outermost Transaction call of chain c is over.
Done(c) == res[c].kind \in {"nil", "err", "panic"}

\* The BeginTx calls of chain c that returned a handle.
BeginsOk(c) == {i \in DOMAIN calls[c] : calls[c][i].op = "begin" /\ calls[c][i].result = NIL}

\* The Commit and Rollback calls of chain c that reached an open
\* transaction (a call on a closed one only returns ErrTxClosed).
Ends(c) ==
    {i \in DOMAIN calls[c] :
        calls[c][i].op \in {"commit", "rollback"} /\ calls[c][i].result # "ErrTxClosed"}

Rollbacks(c) == {i \in DOMAIN calls[c] : calls[c][i].op = "rollback"}

\* The driver level each exported level stands for.
IntendedPgx(name) ==
    CASE name = "IsoLvlReadUncommitted" -> PgxReadUncommitted
      [] name = "IsoLvlReadCommitted" -> PgxReadCommitted
      [] name = "IsoLvlRepeatableRead" -> PgxRepeatableRead
      [] name = "IsoLvlSerializable" -> PgxSerializable

\* C1 (as claimed): once a chain of nested Transaction calls is over and has
\* begun a transaction, exactly one begin and exactly one commit-or-rollback
\* have occurred over the whole chain.  Refuted: a context found cancelled
\* right after BeginTx makes the call return with the transaction neither
\* committed nor rolled back.
C1_ExactlyOneBeginOneEnd ==
    \A c \in chains :
        (Done(c) /\ BeginsOk(c) # {}) =>
            /\ Cardinality(BeginsOk(c)) = 1
            /\ Cardinality(Ends(c)) = 1

\* C2: every BeginTx, Commit and Rollback is issued by a call whose context
\* carried no handle, and every Commit and Rollback by the very call that
\* began the handle it acts on; a nested call issues none, whatever its fn
\* returned.
C2_NestedNeverTouchesDriver ==
    \A c \in chains :
        \A i \in DOMAIN calls[c] :
            LET e == calls[c][i]
            IN  /\ ~e.ctxHad
                /\ e.op \in {"commit", "rollback"} =>
                      /\ txs[e.h].owner = c
                      /\ txs[e.h].depth = e.depth

\* C2 witness: a chain is over in which a nested call returned an error and
\* the outermost call began a handle.
C2_Witness ==
    \E c \in chains : Done(c) /\ nestedFailed[c] /\ BeginsOk(c) # {} /\ Ends(c) # {}

\* C3 (as claimed): when a panic leaves the outermost Transaction call,
\* exactly one rollback was issued and the value that propagates is the value
\* the body panicked with.  Refuted by the older Transaction, whose deferred
\* function panics with Utils.CombineErrors(err.(error), errR).
C3_PanicRollsBackOnceSameValue ==
    \A c \in chains :
        res[c].kind = "panic" =>
            /\ Cardinality(Rollbacks(c)) = 1
            /\ res[c].val = raised[c]

\* C4 (as claimed): when the outermost Transaction has begun a handle and
\* returns an error, a rollback was attempted and the transaction is not
\* left open.  Refuted: the return after the first ctx.Err() check issues
\* no rollback.
C4_RollbackAttemptedOnFailure ==
    \A c \in chains :
        (res[c].kind = "err" /\ BeginsOk(c) # {}) =>
            /\ Rollbacks(c) # {}
            /\ \A h \in DOMAIN txs : txs[h].owner = c => txs[h].state # "open"

\* C5 (as claimed, its second half): a chain in which some nested
\* Transaction call returned an error is never committed.  Refuted: the
\* nested call only hands fn's error to the body that called it, and a body
\* that returns nil all the same gets the transaction committed.
C5_NoCommitAfterNestedFailure ==
    \A h \in DOMAIN txs :
        txs[h].state = "committed" => ~nestedFailed[txs[h].owner]

\* C5 (amended): a physical transaction is committed only if the fn of the
\* outermost Transaction call returned nil.
C5_CommitOnlyIfOutermostFnNil ==
    \A h \in DOMAIN txs :
        txs[h].state = "committed" => fnOut[txs[h].owner] = "nil"

\* C5 witness: a committed transaction in whose chain a nested call failed.
C5_Witness ==
    \E h \in DOMAIN txs : txs[h].state = "committed" /\ nestedFailed[txs[h].owner]

\* C6: a Transaction call made by a body with the context it was given (a
\* nested call), whatever level it requests, begins no handle and makes no
\* driver call, its fn receives the same context, and no step ever changes
\* the isolation level of a begun transaction.
C6_NestedRequestIgnored ==
    [][/\ \A h \in DOMAIN txs : h \in DOMAIN txs' /\ txs'[h].iso = txs[h].iso
       /\ \A c \in chains :
            (Len(stack[c]) >= 1 /\ ncalls'[c] = ncalls[c] + 1) =>
                /\ txs' = txs
                /\ calls' = calls
                /\ Len(stack'[c]) = Len(stack[c]) + 1
                /\ stack'[c][Len(stack'[c])].ctx = BodyCtx(Top(c))
                /\ BodyCtx(stack'[c][Len(stack'[c])]) = BodyCtx(Top(c))]_vars

\* C6 witness: the outer call asked for Serializable, the nested one for
\* ReadCommitted, and the one transaction of the chain is Serializable.
C6_Witness ==
    \E c \in chains :
        /\ Len(stack[c]) >= 2
        /\ stack[c][1].lvl = "IsoLvlSerializable"
        /\ stack[c][2].lvl = "IsoLvlReadCommitted"
        /\ stack[c][2].own = NoTx
        /\ Len(txs) = 1
        /\ txs[1].iso = PgxSerializable

\* C7 (as claimed): the level an outermost Transaction is called with differs
\* in value from the other three levels, and the transaction is begun at the
\* driver level it stands for.  Refuted: the four level variables all hold 0,
\* so the lookup table has one row and every level begins at Serializable.
C7_LevelsDistinctAndMapped ==
    \A h \in DOMAIN txs :
        (variant = "new" /\ txs[h].req # NIL) =>
            /\ \A n \in LevelNames \ {txs[h].req} : IsoValue(n) # IsoValue(txs[h].req)
            /\ txs[h].iso = IntendedPgx(txs[h].req)

\* C8 (as claimed): an outermost Transaction called with a nil level begins
\* at the driver level of the configured default, Read Committed when the
\* configuration leaves it unset.  Refuted through the lookup table of C7.
C8_NilLevelBeginsAtDefault ==
    \A h \in DOMAIN txs :
        (variant = "new" /\ txs[h].req = NIL) =>
            txs[h].iso = IntendedPgx(IF cfgIso = NIL THEN "IsoLvlReadCommitted" ELSE cfgIso)

\* C9: a Query or Exec runs on a transaction handle exactly when its context
\* carries one, and then on that handle; one issued with the context a body
\* was given runs on the chain's own transaction, one issued with a context
\* without a handle runs on the pool.
C9_QueryRunsOnContextHandle ==
    \A c \in chains :
        \A i \in DOMAIN queries[c] :
            LET q == queries[c][i]
            IN  /\ (q.target.on = "tx") <=> (q.ctx # NoTx)
                /\ q.target.on = "tx" => q.target.h = q.ctx
                /\ ~q.bare => (q.target.on = "tx" /\ txs[q.target.h].owner = c)
                /\ q.bare => q.target.on = "pool"

\* C9 witness: one body has issued a statement with its own context and one
\* with a context that carries no handle.
C9_Witness ==
    \E c \in chains :
        \E i, j \in DOMAIN queries[c] :
            /\ ~queries[c][i].bare /\ queries[c][i].target.on = "tx"
            /\ queries[c][j].bare /\ queries[c][j].target.on = "pool"

\* C10: each chain has at most one open handle; a running chain whose
\* BeginTx succeeded runs on a handle it began itself, every context of the
\* chain carries that handle and no other chain's, and every driver call of
\* the chain acts on a handle the chain began.
C10_SiblingsOwnHandles ==
    \A c \in chains :
        /\ Cardinality({h \in OpenHandles : txs[h].owner = c}) <= 1
        /\ Len(stack[c]) >= 1 =>
              /\ stack[c][1].own # NoTx
              /\ txs[stack[c][1].own].owner = c
        /\ \A i \in DOMAIN stack[c] :
              LET f == stack[c][i]
              IN  /\ f.ctx # NoTx => txs[f.ctx].owner = c
                  /\ f.own # NoTx => txs[f.own].owner = c
        /\ \A i \in DOMAIN calls[c] :
              calls[c][i].h # NoTx => txs[calls[c][i].h].owner = c

\* C10 witness: both sibling chains hold an open handle at once, two
\* different ones, and one of them is in a nested call.
C10_Witness ==
    /\ chains = Chains
    /\ \A c \in Chains : Len(stack[c]) >= 1 /\ txs[stack[c][1].own].state = "open"
    /\ stack[1][1].own # stack[2][1].own
    /\ \E c \in Chains : Len(stack[c]) = 2

\* The Commit calls of chain c.
Commits(c) == {i \in DOMAIN calls[c] : calls[c][i].op = "commit"}

\* C11 (as claimed): whenever the fn of the outermost Transaction returned
\* nil, a commit was attempted before the call returned.  Refuted: a context
\* found cancelled after fn makes the call roll back without attempting the
\* commit.
C11_CommitAttemptedOnNil ==
    \A c \in chains : (Done(c) /\ fnOut[c] = "nil") => Commits(c) # {}

\* C11 (amended): when the fn of the outermost Transaction has returned nil
\* and the context is not cancelled at the check that follows, the next step
\* of the call is the commit; the commit is skipped only for a cancelled
\* context, and then a rollback is attempted; a transaction whose commit
\* succeeded is in the committed state and stays there.
C11_CommitAttemptedUnlessCancelled ==
    /\ [](\A c \in chains :
            /\ (Done(c) /\ fnOut[c] = "nil" /\ Commits(c) = {}) =>
                   (cancelled[c] /\ Rollbacks(c) # {})
            /\ \A i \in Commits(c) :
                   calls[c][i].result = NIL => txs[calls[c][i].h].state = "committed")
    /\ [][\A c \in chains :
            (Depth(c) > 0 /\ Top(c).pc = "chk2" /\ ~cancelled[c] /\ stack'[c] # stack[c]) =>
                /\ Len(calls'[c]) > Len(calls[c])
                /\ calls'[c][Len(calls[c]) + 1].op = "commit"
                /\ calls'[c][Len(calls[c]) + 1].h = Top(c).own]_vars

\* C11 witness: the outermost fn returned nil, the commit succeeded, the
\* transaction is committed and Transaction returned nil.
C11_Witness ==
    \E c \in chains :
        /\ res[c].kind = "nil"
        /\ fnOut[c] = "nil"
        /\ \E i \in Commits(c) :
              calls[c][i].result = NIL /\ txs[calls[c][i].h].state = "committed"

\* C12 (as claimed): when a rollback issued by Transaction failed, the error
\* Transaction returns has the primary failure as its cause and carries the
\* rollback error.  Refuted by the newer Transaction, which discards what
\* Rollback returns.
C12_RollbackErrorAttached ==
    \A c \in chains :
        (res[c].kind = "err" /\ \E i \in Rollbacks(c) : calls[c][i].result = "rollbackErr") =>
            /\ res[c].cause.v \in {"fnErr", "commitErr", "ctxErr"}
            /\ res[c].cause.secondary = "rollbackErr"

\* The dial attempts that have ended, all of them in failure.
AllDialsFailed == \A i \in DOMAIN dials : dials[i].ended /\ ~dials[i].ok

C14_NoHalfInitializedClient ==
    (call.o = "connect" /\ caller.state = "returned") =>
        /\ caller.err # NoErr => caller.client = NoClient
        /\ caller.err = NoErr => caller.client.set
        /\ caller.client.set =>
              /\ caller.err = NoErr
              /\ caller.client.pool \in DOMAIN dials
              /\ dials[caller.client.pool].ok
              /\ dials[caller.client.pool].conn = caller.client.pool

\* C14 witness: a client returned after an earlier attempt had failed.
C14_Witness ==
    /\ call.o = "connect"
    /\ caller.state = "returned"
    /\ caller.client.set
    /\ Len(dials) > 1
    /\ ~dials[1].ok

\* C15 (as claimed): no dial attempt starts after the deadline of the Connect
\* call has expired.  Refuted: the retry loop runs in the function
\* util.Deadline left behind and never looks at the exceeded channel, so it
\* starts the remaining attempts.
C15_NoAttemptAfterExpiry ==
    \A i \in DOMAIN dials : ~dials[i].late

\* C16: once the deadline has expired during a Connect, the caller has
\* returned with no client and a TimedOut error, and a connection built by an
\* attempt that ended after the expiry is the pool of no returned client.
C16_LateConnectionDiscarded ==
    (call.o = "connect" /\ deadline.expired) =>
        /\ caller.state = "returned"
        /\ caller.client = NoClient
        /\ Kind(caller.err) = "TimedOut"
        /\ \A i \in DOMAIN dials :
              (dials[i].endLate /\ dials[i].conn # NoPool) =>
                  ~(caller.client.set /\ caller.client.pool = dials[i].conn)

\* C16 witness: the deadline expired, and the attempt left behind has since
\* built a connection and assigned it to the local variable.
C16_Witness ==
    /\ call.o = "connect"
    /\ deadline.expired
    /\ \E i \in DOMAIN dials : dials[i].endLate /\ dials[i].ok /\ pool = dials[i].conn
    /\ caller.client = NoClient

\* C17 (as claimed): Health returns an error of kind Unhealthy exactly when
\* the pool is below its minimum, the probe fails or the context is already
\* cancelled, and nil in every other case.  Refuted: the Unhealthy error of
\* the function is returned wrapped by ErrDatabaseGeneric / ErrCacheGeneric,
\* and a deadline that expires first gives TimedOut.
C17_HealthUnhealthyIff ==
    (call.o = "health" /\ caller.state = "returned") =>
        LET bad == call.belowMin \/ call.probeFails \/ call.preCancelled
        IN  /\ (Kind(caller.err) = "Unhealthy") <=> bad
            /\ ~bad => caller.err = NoErr

C19_ExpiryReturnsWithoutWaiting ==
    /\ [](deadline.expired => deadline.signalled)
    /\ [][(~deadline.expired /\ deadline'.expired) =>
             /\ caller.state = "waiting"
             /\ worker.state # "done"
             /\ worker' = worker
             /\ deadline'.signalled
             /\ caller'.state = "returned"
             /\ IsDeadlineExceeded(caller'.derr)
             /\ Kind(caller'.err) = "TimedOut"]_vars

\* C19 witness: Migrator.Close has returned TimedOut while its function is
\* still running.
C19_Witness ==
    /\ call.r = "migrator"
    /\ call.o = "close"
    /\ caller.state = "returned"
    /\ Kind(caller.err) = "TimedOut"
    /\ deadline.signalled
    /\ worker.state = "running"

\* e is err or wraps it: err is the cause at the end of e's chain.
HasCause(e, err) ==
    /\ Len(e) >= Len(err)
    /\ SubSeq(e, Len(e) - Len(err) + 1, Len(e)) = err

\* C20: when the function ends before the deadline expires, util.Deadline
\* returns the function's error unchanged and the caller gets it as it is or
\* as the cause of its error, never as TimedOut; with a context without a
\* deadline the caller returns only once the function is over.
C20_FnErrorNotTimeout ==
    /\ (worker.state = "done" /\ ~deadline.expired) =>
          /\ caller.state = "returned"
          /\ caller.derr = worker.err
          /\ HasCause(caller.err, worker.err)
          /\ Kind(caller.err) # "TimedOut"
          /\ (caller.err = NoErr) <=> (worker.err = NoErr)
    /\ (~call.hasDeadline /\ caller.state = "returned") =>
          /\ worker.state = "done"
          /\ caller.derr = worker.err

\* C20 witness: NewMigrator on a context with a deadline that has not
\* expired returned the error of its failed dial.
C20_Witness ==
    /\ call.r = "migrator"
    /\ call.o = "connect"
    /\ call.hasDeadline
    /\ ~deadline.expired
    /\ caller.state = "returned"
    /\ worker.err # NoErr
    /\ caller.err = worker.err

\* C21: the dial function is called with the numbers 1, 2, 3, ... in order
\* and without gaps, every attempt but the last has ended in failure (the
\* first success is the last attempt), no number exceeds `attempts`, and the
\* retrying is over only after a success, after `attempts` failures or after
\* a failure that is not retriable.
C21_AttemptsNumberedFromOne ==
    /\ [](/\ \A i \in DOMAIN dials : dials[i].n = i /\ dials[i].n <= call.attempts
          /\ \A i \in DOMAIN dials : i < Len(dials) => (dials[i].ended /\ ~dials[i].ok)
          /\ (call.o = "connect" /\ worker.state = "done") =>
                /\ dials # << >>
                /\ dials[Len(dials)].ended
                /\ \/ dials[Len(dials)].ok
                   \/ Len(dials) = call.attempts
                   \/ ~call.matches)
    /\ [][dials' # dials =>
             \/ /\ Len(dials') = Len(dials) + 1
                /\ SubSeq(dials', 1, Len(dials)) = dials
                /\ dials'[Len(dials')].n = Len(dials) + 1
             \/ /\ Len(dials') = Len(dials)
                /\ \A i \in DOMAIN dials : dials'[i].n = dials[i].n]_vars

\* C21 witness: the second of more than two configured attempts succeeded
\* and the retrying is over.
C21_Witness ==
    /\ call.o = "connect"
    /\ call.attempts > 2
    /\ worker.state = "done"
    /\ Len(dials) = 2
    /\ ~dials[1].ok
    /\ dials[2].ok

\* C22: with a list of retriables the failure does not match, the first
\* failed attempt is the last one and its error is what the retry returns
\* and the caller gets as cause; with no retriables listed a failing dial is
\* retried until the attempts are used up.
C22_NonRetriableAborts ==
    /\ (call.retriables = "other" /\ dials # << >> /\ dials[1].ended /\ ~dials[1].ok) =>
          /\ Len(dials) = 1
          /\ worker.state = "done"
          /\ worker.err # NoErr
          /\ (caller.state = "returned" /\ ~deadline.expired) =>
                HasCause(caller.err, worker.err)
    /\ (call.o = "connect" /\ call.retriables = "empty" /\ worker.state = "done"
          /\ worker.err # NoErr) =>
          /\ Len(dials) = call.attempts
          /\ AllDialsFailed

\* C22 witness: several attempts configured, a failure that matches none of
\* the retriables listed: one attempt, and its error returned.
C22_Witness ==
    /\ call.o = "connect"
    /\ call.retriables = "other"
    /\ call.attempts > 1
    /\ Len(dials) = 1
    /\ caller.state = "returned"
    /\ Kind(caller.err) = "Generic"

\* The smaller of two delays when a limit is set.
Capped(d, lim) == IF lim > 0 /\ d > lim THEN lim ELSE d

CarriesIntegrityCode(e) ==
    \/ e[1].id = "pgconn.PgError" /\ e[1].code \in IntegrityCodes
    \/ \E i \in DOMAIN ErrorText(e) :
          /\ i + 2 <= Len(ErrorText(e))
          /\ ErrorText(e)[i] = SqlStateOpen
          /\ ErrorText(e)[i + 1] \in IntegrityCodes
          /\ ErrorText(e)[i + 2] = ParenClose

\* The raw error is the sentinel the classifier knows for "not found".
IsNotFoundSentinel(c, e) ==
    \/ c = "database" /\ (e[1].id = "pgx.ErrNoRows" \/ ErrorText(e) = NoRowsText)
    \/ c = "cache" /\ e[1].id = "cache.ErrCacheMiss"

\* C24: the classifier maps nil to nil; for the database, a raw error
\* carrying an integrity-constraint code to IntegrityViolation; the no-rows
\* sentinel (database) and the cache-miss sentinel (cache) to NotFound; every
\* other error to Generic; and the raw error is the cause of what it returns.
C24_ClassificationTotal ==
    pass >= 1 =>
       IF rawErr = << >> THEN once = << >>
       ELSE /\ Tail(once) = rawErr
            /\ ErrorKind(once) =
                  IF classifier = "database" /\ CarriesIntegrityCode(rawErr)
                  THEN "IntegrityViolation"
                  ELSE IF IsNotFoundSentinel(classifier, rawErr) THEN "NotFound"
                  ELSE "Generic"

\* C25: classifying what the classifier returned yields the kind it had.
C25_ClassificationIdempotent ==
    pass = 2 => ErrorKind(twice) = ErrorKind(once)

\* The BeginTx calls chain c has made.
Begins(c) == {i \in DOMAIN calls[c] : calls[c][i].op = "begin"}

\* C26: a Query or an Exec hands exactly one statement to the driver and
\* returns the classified first failure at once, nil when nothing failed; a
\* step adds at most one BeginTx call to a chain, and only the step in which
\* a Transaction call is entered; no Transaction call invokes fn twice.
C26_NeverRetried ==
    /\ [](\A c \in chains :
            /\ \A i \in DOMAIN queries[c] :
                  LET q == queries[c][i]
                      first == IF q.drv # << >> THEN q.drv
                               ELSE IF q.ctxErr # << >> THEN q.ctxErr
                               ELSE IF q.kind = "query" THEN q.scan ELSE << >>
                  IN  /\ q.issued = 1
                      /\ first = << >> => q.ret = << >>
                      /\ first # << >> =>
                            /\ Tail(q.ret) = first
                            /\ ErrorKind(q.ret) \in {"IntegrityViolation", "NotFound", "Generic"}
            /\ \A i \in DOMAIN stack[c] :
                  /\ stack[c][i].runs <= 1
                  /\ stack[c][i].runs = 0 <=> stack[c][i].pc = "chk1")
    /\ [][\A c \in chains :
            /\ Cardinality(Begins(c))' <= Cardinality(Begins(c)) + 1
            /\ Cardinality(Begins(c))' > Cardinality(Begins(c)) =>
                  \/ res[c].kind = "idle"
                  \/ ncalls'[c] = ncalls[c] + 1
            /\ \A i \in DOMAIN stack[c] :
                  i <= Len(stack'[c]) => stack'[c][i].runs \in {stack[c][i].runs, 1}]_vars

\* C26 witness: a Query on the handle of a transaction failed in the driver
\* with a unique violation, a nested Transaction call was made, and the
\* outermost call is over.
C26_Witness ==
    \E c \in chains :
       /\ queries[c] # << >>
       /\ queries[c][1].kind = "query"
       /\ queries[c][1].target.on = "tx"
       /\ queries[c][1].drv # << >>
       /\ ErrorKind(queries[c][1].ret) = "IntegrityViolation"
       /\ Cardinality(Begins(c)) = 1
       /\ ncalls[c] > 0
       /\ Done(c)

\* The function of the call in progress is that of an Apply that started at
\* version c with the dirty flag bad.
ApplyFrom(c, bad) ==
    /\ mcall.op = "apply"
    /\ mcall.before = Schema(c, bad)

\* How many times the call has logged that message.
Logged(msg) == Cardinality({i \in DOMAIN mlog : mlog[i] = msg})

\* C27: Apply(d) on a clean schema at version c < d runs the migrations
\* c+1, c+2, ... in that order and none beyond d; when it has returned nil
\* (no graceful stop having cut it short) it has run exactly the d - c
\* migrations c+1..d, the schema is clean at version d and success has been
\* logged once; from version 3, Apply(5) runs exactly migrations 4 and 5.
C27_ApplyRunsMissingMigrations ==
    \A c \in 0..MaxVersion :
       (ApplyFrom(c, FALSE) /\ c < mcall.d) =>
          /\ Len(applied) <= mcall.d - c
          /\ \A i \in DOMAIN applied : applied[i].dir = "up" /\ applied[i].v = c + i
          /\ \A i \in DOMAIN applied : i < Len(applied) => applied[i].ok
          /\ Logged("appliedAll") <= 1
          /\ (mwork.pc = "done" /\ mwork.err = "" /\ ~mwork.stopped) =>
                /\ Len(applied) = mcall.d - c
                /\ schema = Schema(mcall.d, FALSE)
                /\ Logged("appliedAll") = 1
          /\ (mcall.state = "returned" /\ mcall.err = "") => mwork.pc = "done" /\ mwork.err = ""

\* C27 witness: Apply(5) from a clean version 3 has returned nil.
C27_Witness ==
    /\ ApplyFrom(3, FALSE)
    /\ mcall.d = 5
    /\ mcall.state = "returned"
    /\ mcall.err = ""
    /\ ~mwork.stopped
    /\ Len(applied) = 2

C30_CloseTimesOut ==
    (closing.expired /\ closing.inFlight) =>
       (closing.state = "returned" /\ closing.err = "TimedOut")

\* The physical transaction the outermost call of chain c began is committed.
Committed(c) == \E h \in DOMAIN txs : txs[h].owner = c /\ txs[h].state = "committed"

\* C31: once the outermost Transaction call of a chain is over, it has
\* returned nil exactly when the transaction it began is committed; a call
\* that returned an error has committed nothing.
C31_NilIffCommitted ==
    \A c \in chains : Done(c) => (res[c].kind = "nil" <=> Committed(c))

\* The outermost Transaction call of chain c failed to begin.
BeginFailed(c) ==
    /\ calls[c] # << >>
    /\ calls[c][1].op = "begin"
    /\ calls[c][1].result = "beginErr"

\* C32: when BeginTx fails in the outermost Transaction call, fn is not
\* invoked (no call is in progress, no Query, Exec or nested Transaction is
\* made), the failed BeginTx is the only driver call (no commit, no
\* rollback), and the call has returned ErrDatabaseTransactionFailed with
\* the begin error as cause.
C32_BeginFailureReturnsAtOnce ==
    \A c \in chains :
       BeginFailed(c) =>
          /\ stack[c] = << >>
          /\ Len(calls[c]) = 1
          /\ queries[c] = << >>
          /\ ncalls[c] = 0
          /\ txs = << >> \/ \A h \in DOMAIN txs : txs[h].owner # c
          /\ res[c].kind = "err"
          /\ res[c].code = "ErrDatabaseTransactionFailed"
          /\ res[c].cause.v = "beginErr"

\* C32 witness: BeginTx failed in the outermost call of a chain while its
\* context was not cancelled.
C32_Witness ==
    \E c \in chains : BeginFailed(c) /\ Done(c) /\ ~cancelled[c]

\* C33: Migrator.Close never closes the underlying handle while a Version,
\* Assert, Apply or Rollback is still executing: whenever the handle is
\* closed, no function of an operation is in its body, however Close is
\* interleaved with the start and the end of the operations.
C33_CloseWaitsForOperation ==
    closing.handleClosed => \A sl \in Slots : ~Executing(works[sl])

\* C34: the done channel is closed at most once, and only by the operation
\* that made it: no close of a closed channel panics, and the channel
\* self.done holds is closed by nobody but the function of the operation
\* made last, also when a function abandoned by its deadline runs on
\* beside the next operation.
C34_DoneClosedOnceByItsMaker ==
    /\ ~MigPanicked
    /\ done.closes <= 1
    /\ done.closedBy \in {"none", done.owner}

\* C35: Close does not block on done when no operation is in flight: when
\* no function was running as Close started, straight after NewMigrator
\* or after the operations before have ended, the channel its work waits
\* on is closed, and a Close that has returned nil has closed the handle.
C35_CloseNotBlockedWhenIdle ==
    /\ (closing.fn = "blocked" /\ ~closing.inFlight) => WaitClosed
    /\ (closing.state = "returned" /\ closing.err = "") => closing.handleClosed

\* Close is called on a migrator no operation was ever called on, and
\* returns nil with the handle closed.
C35_Witness ==
    /\ mcall.state = "idle"
    /\ closing.state = "returned"
    /\ closing.err = ""
    /\ ~closing.inFlight
    /\ closing.handleClosed

\* Close is called after an operation has returned without timing out, and
\* returns nil with the handle closed.
C35_WitnessAfterOperation ==
    /\ mcall.state = "returned"
    /\ ~mcall.expired
    /\ closing.state = "returned"
    /\ closing.err = ""
    /\ ~closing.inFlight
    /\ closing.handleClosed

\* C36: when Rollback(d) has succeeded (no graceful stop having cut it
\* short), the persisted schema is clean and at exactly version d, whether
\* or not it was dirty when the call started.
C36_RollbackEndsAtDesired ==
    (mcall.op = "rollback" /\ mwork.pc = "done" /\ mwork.err = "" /\ ~mwork.stopped) =>
       schema = Schema(mcall.d, FALSE)

\* C37: when Rollback has ended with the "desired ahead of current" error,
\* the persisted version and the dirty flag are what they were before the
\* call.
C37_AheadChangesNothing ==
    (mcall.op = "rollback" /\ mwork.pc = "done" /\ mwork.err = "ahead") =>
       schema = mcall.before

\* C38: Assert(d) never changes the persisted schema, and once the version
\* is read it ends with nil exactly when the schema is clean and at version
\* d, and otherwise with the error of its case: dirty, desired behind
\* current (c > d), or desired ahead of current (c < d).
C38_AssertTellsApart ==
    mcall.op = "assert" =>
       /\ schema = mcall.before
       /\ (mwork.pc = "done" /\ mwork.err # "versionErr") =>
             mwork.err = IF mcall.before.dirty THEN "dirty"
                         ELSE IF mcall.before.version > mcall.d THEN "behind"
                         ELSE IF mcall.before.version < mcall.d THEN "ahead"
                         ELSE ""

\* C39: Apply on a dirty schema runs no migration, leaves version and dirty
\* flag as they were and ends with an error; Apply(d) on a clean schema at
\* version d runs no migration, leaves the schema as it was and, once the
\* version is read, ends with nil after logging that nothing is to apply.
C39_ApplyDirtyOrCurrent ==
    \A c \in 0..MaxVersion :
       /\ ApplyFrom(c, TRUE) =>
             /\ applied = << >>
             /\ schema = mcall.before
             /\ mwork.pc = "done" => mwork.err \in {"dirty", "versionErr"}
             /\ (mcall.state = "returned" /\ ~mcall.expired) => mcall.err = mwork.err
       /\ (ApplyFrom(c, FALSE) /\ mcall.d = c) =>
             /\ applied = << >>
             /\ schema = mcall.before
             /\ (mwork.pc = "done" /\ mwork.err # "versionErr") =>
                   mwork.err = "" /\ Logged("noMigrations") = 1
             /\ (mcall.state = "returned" /\ ~mcall.expired) => mcall.err = mwork.err

\* C39 witness: Apply(4) on a schema dirty at version 2 has returned the
\* "is dirty" error.
C39_Witness ==
    /\ ApplyFrom(2, TRUE)
    /\ mcall.d = 4
    /\ mcall.state = "returned"
    /\ mcall.err = "dirty"
    /\ schema = Schema(2, TRUE)

\* Apply(3) on a clean schema at version 3 has returned nil.
C39_WitnessCurrent ==
    /\ ApplyFrom(3, FALSE)
    /\ mcall.d = 3
    /\ mcall.state = "returned"
    /\ mcall.err = ""
    /\ schema = Schema(3, FALSE)

\* C40: when NewDatabase or NewCache has returned an error, no pool or
\* client built by any of its attempts is open: every attempt of the call
\* has left no pool behind.
C40_NoPoolLeftOpen ==
    (/\ call.o = "connect"
     /\ call.r \in {"database", "cache"}
     /\ caller.state = "returned"
     /\ caller.err # NoErr) =>
       \A i \in DOMAIN dials : ~PoolLeftOpen(dials[i])
====
